---- MODULE Spec2Model ----
(***************************************************************************)
(* A model of the agentic-support decision core:                            *)
(*   - src/src/agents/qudag.system.ts : BaseAgent and its policy pass, the  *)
(*     four agents, QuDAGOrchestrator.processRequest;                       *)
(*   - src/unnamed/part_000 (agents/qudag-integration.ts) :                 *)
(*     QuDAGSwarmOrchestrator, its question graphs and their execution.     *)
(*                                                                         *)
(* Numbers.  A confidence is an IEEE double in the code.  Here it is an     *)
(* integer count of thousandths: the double nearest k/1000 is written k.    *)
(* The only doubles the agents compute that are not nearest to a multiple   *)
(* of 0.001 are the sums 0.7+0.1, 0.7+0.2 and (0.7+0.2)+0.1, each one ulp   *)
(* below 0.8, 0.9 and 1.0; they are written 799, 899 and 999, which keeps   *)
(* every comparison the code makes with them (see FAdd).                    *)
(*                                                                         *)
(* Text.  A string is a sequence of tokens: words and the sentence          *)
(* terminator ".".  Tokens are separated by one blank, except that a        *)
(* terminator follows its word directly.                                    *)
(***************************************************************************)
EXTENDS Integers, Sequences, FiniteSets, TLC

VARIABLES
    config,      \* config.agent of environment.ts, as loaded at start-up
    agentKind,   \* AgentSpec: the class of the stand-alone agent
    policies,    \* AgentSpec: BaseAgent.policies of that agent
    lastCall     \* AgentSpec: the outcome of the process() call just made
                 \* (NoCall when the latest operation was not a call)

VARIABLES
    agentPolicies, \* OrchSpec: the policies of QuDAGOrchestrator's four agents
    pc,            \* OrchSpec: where processRequest stands
    request,       \* OrchSpec: the input of the processRequest call
    decisions,     \* OrchSpec: the local list decisions of processRequest
    invoked,       \* OrchSpec: the agents whose process was awaited, in order
    outcome        \* OrchSpec: what processRequest returned

VARIABLES
    graphs,        \* QuDAGSwarmOrchestrator.graphs: graph id -> graph (or NoGraph)
    nextId,        \* the number of ids uuidv4() has handed out, plus one
    apiError,      \* GraphSpec: the error the latest createGraph/addNode threw
    nodeAdded,     \* the 'nodeAdded' events emitted: <<graphId, node id>>
    swarmConfig,   \* QuDAGSwarmOrchestrator.swarmConfig
    qdagInstance,  \* QuDAGSwarmOrchestrator.qdagInstance is set
    initState,     \* how far initialize() got: "new", "initialized", "failed"
    calls,         \* the processRequest calls of the swarm orchestrator
    started,       \* the number of processRequest calls made so far
    activeAgents,  \* QuDAGSwarmOrchestrator.activeAgents: agent id -> agent
    spawns,        \* the spawnAgent calls of the swarm orchestrator
    consensusCall  \* ConsensusSpec: the latest calculateConsensus call

VARIABLES
    rateConfig,    \* config.rateLimit: windowMs and max
    rateLimits,    \* the rows of the table rate_limits, in insertion order
    clock,         \* the time Date.now() returns
    rateCalls,     \* the checkRateLimit calls made so far and what they returned
    ticket         \* the latest POST /support/create request and how far it got

VARIABLES
    hook,          \* HookSpec: the database and the latest POST /webhooks/github
    mail,          \* MailSpec: the database, GitHub and the emails being processed
    admin          \* AdminSpec: the table agent_actions and the admin requests

agentVars == <<agentKind, policies, lastCall>>
orchVars == <<agentPolicies, pc, request, decisions, invoked, outcome>>
graphVars == <<graphs, nextId, apiError, nodeAdded>>
poolVars == <<activeAgents, spawns>>
swarmVars == <<swarmConfig, qdagInstance, initState, calls, started, poolVars,
               consensusCall>>
rateVars == <<rateConfig, rateLimits, clock, rateCalls>>
deskVars == <<hook, mail, admin>>
webVars == <<rateVars, ticket, deskVars>>
vars == <<config, agentVars, orchVars, graphVars, swarmVars, webVars>>

(***************************************************************************)
(* Text                                                                     *)
(***************************************************************************)

\* String.prototype.toLowerCase, on the words of the vocabulary.
toLowerCase(w) ==
    CASE w = "URGENT" -> "urgent"
      [] w = "Bug"    -> "bug"
      [] w = "How"    -> "how"
      [] w = "What"   -> "what"
      [] w = "Is"     -> "is"
      [] w = "Can"    -> "can"
      [] w = "Should" -> "should"
      [] w = "Does"   -> "does"
      [] OTHER        -> w

\* The pairs <<w, k>> of a lower-case vocabulary word w and a keyword k # w
\* that occurs inside w.
ProperSubstrings ==
    { <<"debug", "bug">>, <<"helpful", "help">>, <<"bug?", "bug">>,
      <<"automatically?", "automatically">>, <<"escalated", "escalate">> }

\* s.includes(k) for one lower-case word s and a one-word keyword k.
WordIncludes(w, k) == w = k \/ <<w, k>> \in ProperSubstrings

LowerText(text) == [i \in 1..Len(text) |-> toLowerCase(text[i])]

\* text.toLowerCase().includes(phrase): phrase is a keyword given as the
\* sequence of its words.  A one-word keyword may occur inside a word; the
\* words of a longer keyword must follow each other, blank-separated.
Includes(text, phrase) ==
    LET t == LowerText(text)
        n == Len(phrase)
    IN  IF n = 1
        THEN \E i \in 1..Len(t) : WordIncludes(t[i], phrase[1])
        ELSE \E i \in 1..(Len(t) - n + 1) :
                \A j \in 1..n : t[i + j - 1] = phrase[j]

IncludesAny(text, phrases) == \E p \in phrases : Includes(text, p)

(***************************************************************************)
(* Floating point                                                           *)
(***************************************************************************)

\* a + b on doubles, in thousandths (see the header).
FAdd(a, b) ==
    CASE a = 700 /\ b = 100 -> 799
      [] a = 700 /\ b = 200 -> 899
      [] a = 899 /\ b = 100 -> 999
      [] OTHER              -> a + b

\* The element of a one-element set.  Only({F(x) : x \in {e}}) is F(e) with
\* e evaluated once.
Only(S) == CHOOSE x \in S : TRUE

Min(a, b) == IF a < b THEN a ELSE b
Max(a, b) == IF a > b THEN a ELSE b

(***************************************************************************)
(* Decisions, policies                                                      *)
(***************************************************************************)

\* suggestedResponse: null
Null == <<"<null>">>

\* JavaScript truthiness of a string-or-null value.
Truthy(s) == s # <<>> /\ s # Null

\* decision.metadata: the fields any agent or policy sets.  "" is an absent
\* (undefined) or empty string field; both are falsy.
EmptyMetadata ==
    [categories |-> <<>>, priority |-> "", type |-> "", intent |-> "",
     originalLength |-> 0, summaryLength |-> 0, tags |-> {}]

\* rule.parameters: undefined, or an object.  value = -1 stands for the
\* value field being absent from the object; type and tag are the metadata
\* keys the object carries ("-" : the key is absent).
NoParameters == [defined |-> FALSE, value |-> -1, type |-> "-", tag |-> "-"]
Parameters(v, ty, tg) == [defined |-> TRUE, value |-> v, type |-> ty, tag |-> tg]

\* evaluateCondition: the condition string is compiled by new Function and
\* called with (input, decision); a failure to compile or to run is caught
\* and yields false.  The conditions of the model:
\*   "decision.confidence < 0.8"     the default human-review rule
\*   "decision.confidence < 0.5"     the rule of the agent tests
\*   "true"
\*   "decision.confidence <"         a SyntaxError in new Function
\*   "input.missing.field == 1"      a TypeError when called
\* evaluateCondition with a catch block that returns true.
evaluateConditionCatchTrue(condition, input, decision) ==
    CASE condition = "decision.confidence < 0.8" -> decision.confidence < 800
      [] condition = "decision.confidence < 0.5" -> decision.confidence < 500
      [] condition = "true"                      -> TRUE
      [] OTHER                                   -> TRUE

evaluateCondition(condition, input, decision) ==
    CASE condition = "decision.confidence < 0.8" -> decision.confidence < 800
      [] condition = "decision.confidence < 0.5" -> decision.confidence < 500
      [] condition = "true"                      -> TRUE
      [] condition = "decision.confidence <"     -> FALSE
      [] condition = "input.missing.field == 1"  -> FALSE
      [] OTHER                                   -> FALSE

\* Whether evaluateCondition's try block raised (and logged) for condition.
ConditionRaises(condition) ==
    condition \in {"decision.confidence <", "input.missing.field == 1"}

\* applyAction raises a TypeError when 'set_confidence' reads
\* parameters.value of undefined parameters.
applyActionThrows(action, parameters) ==
    action = "set_confidence" /\ ~parameters.defined

\* applyAction, when it does not raise.
applyAction(action, decision, parameters) ==
    CASE action = "require_human_approval" ->
            [decision EXCEPT !.requiresHumanApproval = TRUE]
      [] action = "set_confidence" ->
            [decision EXCEPT !.confidence = parameters.value]
      [] action = "add_metadata" ->
            IF ~parameters.defined THEN decision
            ELSE [decision EXCEPT
                    !.metadata.type =
                        IF parameters.type = "-" THEN @ ELSE parameters.type,
                    !.metadata.tags =
                        IF parameters.tag = "-" THEN @ ELSE @ \cup {parameters.tag}]
      [] OTHER -> decision

\* this.policies.filter(p => p.enabled)
EnabledPolicies(ps) == SelectSeq(ps, LAMBDA p : p.enabled)

\* The rules of the policies ps in the order the two nested loops of
\* checkPolicies visit them, each with the policy it belongs to.
RECURSIVE RuleVisits(_)
RuleVisits(ps) ==
    IF ps = <<>> THEN <<>>
    ELSE [i \in 1..Len(Head(ps).rules) |->
            [policy |-> Head(ps).id, priority |-> Head(ps).priority,
             enabled |-> Head(ps).enabled, index |-> i,
             rule |-> Head(ps).rules[i]]]
         \o RuleVisits(Tail(ps))

\* The loop body of checkPolicies over the rule visits vs, from the state
\* st = [threw, decision, trace, raised]: trace lists the visits whose rule
\* was evaluated, raised the conditions whose evaluation failed.
RECURSIVE PolicyLoop(_, _, _)
PolicyLoop(vs, input, st) ==
    IF vs = <<>> \/ st.threw THEN st
    ELSE LET v    == Head(vs)
             hit  == evaluateCondition(v.rule.condition, input, st.decision)
             st1  == [st EXCEPT
                        !.trace = Append(@, [policy |-> v.policy,
                                             priority |-> v.priority,
                                             enabled |-> v.enabled,
                                             index |-> v.index,
                                             rule |-> v.rule,
                                             applied |-> hit]),
                        !.raised = IF ConditionRaises(v.rule.condition)
                                   THEN @ \cup {v.rule.condition} ELSE @]
         IN  IF ~hit THEN PolicyLoop(Tail(vs), input, st1)
             ELSE IF applyActionThrows(v.rule.action, v.rule.parameters)
                  THEN [st1 EXCEPT !.threw = TRUE]
                  ELSE PolicyLoop(Tail(vs), input,
                         [st1 EXCEPT !.decision =
                            applyAction(v.rule.action, @, v.rule.parameters)])

\* BaseAgent.checkPolicies(input, decision) on the policy list ps.
checkPolicies(ps, input, decision) ==
    PolicyLoop(RuleVisits(EnabledPolicies(ps)), input,
               [threw |-> FALSE, decision |-> decision, trace |-> <<>>,
                raised |-> {}])

\* Array.prototype.sort((a, b) => b.priority - a.priority): stable, by
\* descending priority.
RECURSIVE SortByPriorityDesc(_)
SortByPriorityDesc(ps) ==
    IF ps = <<>> THEN <<>>
    ELSE LET rest == SortByPriorityDesc(SubSeq(ps, 1, Len(ps) - 1))
             p    == ps[Len(ps)]
             k    == Cardinality({i \in 1..Len(rest) : rest[i].priority >= p.priority})
         IN  SubSeq(rest, 1, k) \o <<p>> \o SubSeq(rest, k + 1, Len(rest))

\* addPolicy without its sort: the policy stays where push put it.
addPolicyUnsorted(ps, policy) == Append(ps, policy)

\* BaseAgent.addPolicy: push, then sort.
addPolicy(ps, policy) == SortByPriorityDesc(Append(ps, policy))

(***************************************************************************)
(* TriageAgent                                                              *)
(***************************************************************************)

\* `${input.subject} ${input.body}`
SubjectAndBody(input) == input.subject \o input.body

\* TriageAgent.categorize
categorize(input) ==
    LET text == SubjectAndBody(input)
        c1 == IF IncludesAny(text, {<<"bug">>, <<"error">>, <<"broken">>})
              THEN <<"bug">> ELSE <<>>
        c2 == IF IncludesAny(text, {<<"feature">>, <<"request">>, <<"enhancement">>})
              THEN <<"feature-request">> ELSE <<>>
        c3 == IF IncludesAny(text, {<<"urgent">>, <<"critical">>, <<"asap">>})
              THEN <<"urgent">> ELSE <<>>
        c4 == IF IncludesAny(text, {<<"question">>, <<"how", "to">>, <<"help">>})
              THEN <<"question">> ELSE <<>>
        categories == c1 \o c2 \o c3 \o c4
    IN  IF Len(categories) = 0 THEN <<"general">> ELSE categories

SeqIncludes(seq, x) == \E i \in 1..Len(seq) : seq[i] = x

\* prioritize with 'bug' tested before 'urgent'.
prioritizeBugFirst(categories) ==
    IF SeqIncludes(categories, "bug") THEN "medium"
    ELSE IF SeqIncludes(categories, "urgent") THEN "high"
    ELSE IF SeqIncludes(categories, "feature-request") THEN "low"
    ELSE "normal"

\* TriageAgent.prioritize
prioritize(categories) ==
    IF SeqIncludes(categories, "urgent") THEN "high"
    ELSE IF SeqIncludes(categories, "bug") THEN "medium"
    ELSE IF SeqIncludes(categories, "feature-request") THEN "low"
    ELSE "normal"

\* TriageAgent.evaluateConfidence
TriageEvaluateConfidence(categories, priority) ==
    LET k0 == 500
        k1 == IF Len(categories) > 0 /\ categories[1] # "general"
              THEN FAdd(k0, 200) ELSE k0
        k2 == IF priority # "normal" THEN FAdd(k1, 200) ELSE k1
        k3 == IF Len(categories) = 1 THEN FAdd(k2, 100) ELSE k2
    IN  Min(k3, 1000)

\* The tentative decision of TriageAgent.process, before the policy pass.
TriageDecision(input, cfg) ==
    LET categories == categorize(input)
        priority   == prioritize(categories)
        confidence == TriageEvaluateConfidence(categories, priority)
    IN  [action |-> "triage",
         confidence |-> confidence,
         requiresHumanApproval |-> confidence < cfg.confidenceThreshold,
         suggestedResponse |-> Null,
         metadata |-> [EmptyMetadata EXCEPT !.categories = categories,
                                            !.priority = priority]]

(***************************************************************************)
(* IntentDetectionAgent                                                     *)
(***************************************************************************)

\* detectIntent with the information_request patterns tested first.
detectIntentInformationFirst(text) ==
    IF IncludesAny(text, {<<"how">>, <<"what">>, <<"where">>}) THEN "information_request"
    ELSE IF IncludesAny(text, {<<"cancel">>, <<"unsubscribe">>}) THEN "cancellation"
    ELSE IF IncludesAny(text, {<<"refund">>, <<"money", "back">>}) THEN "refund_request"
    ELSE IF IncludesAny(text, {<<"bug">>, <<"broken">>, <<"not", "working">>}) THEN "bug_report"
    ELSE IF IncludesAny(text, {<<"feature">>, <<"could", "you">>,
                               <<"it", "would", "be", "nice">>}) THEN "feature_request"
    ELSE "general_inquiry"

\* IntentDetectionAgent.detectIntent: the first matching pattern wins.
detectIntent(text) ==
    IF IncludesAny(text, {<<"cancel">>, <<"unsubscribe">>}) THEN "cancellation"
    ELSE IF IncludesAny(text, {<<"refund">>, <<"money", "back">>}) THEN "refund_request"
    ELSE IF IncludesAny(text, {<<"how">>, <<"what">>, <<"where">>}) THEN "information_request"
    ELSE IF IncludesAny(text, {<<"bug">>, <<"broken">>, <<"not", "working">>}) THEN "bug_report"
    ELSE IF IncludesAny(text, {<<"feature">>, <<"could", "you">>,
                               <<"it", "would", "be", "nice">>}) THEN "feature_request"
    ELSE "general_inquiry"

\* evaluateConfidence on a percent scale (85 for 0.85).
IntentEvaluateConfidencePercent(intentType) ==
    IF intentType = "general_inquiry" THEN 50000 ELSE 85000

\* IntentDetectionAgent.evaluateConfidence
IntentEvaluateConfidence(intentType) ==
    IF intentType = "general_inquiry" THEN 500 ELSE 850

\* The tentative decision of IntentDetectionAgent.process.
IntentDecision(input, cfg) ==
    LET intentType == detectIntent(input.text)
        confidence == IntentEvaluateConfidence(intentType)
    IN  [action |-> "route",
         confidence |-> confidence,
         requiresHumanApproval |-> confidence < 700,
         suggestedResponse |-> Null,
         metadata |-> [EmptyMetadata EXCEPT !.type = intentType]]

(***************************************************************************)
(* AutoReplyAgent                                                           *)
(***************************************************************************)

\* AutoReplyAgent.loadKnowledgeBase: the keys of the knowledge base.
knowledgeBase == {"password_reset", "refund_policy", "technical_support"}

\* generateResponse with a response for every intent.
generateResponseForAll(intent) ==
    IF intent \in knowledgeBase THEN <<"kb", intent>>
    ELSE CASE intent = "information_request" -> <<"Thank", "you", "for", "your", "inquiry", ".">>
           [] intent = "bug_report"          -> <<"Thank", "you", "for", "reporting", ".">>
           [] intent = "feature_request"     -> <<"Thank", "you", "for", "your", "suggestion", ".">>
           [] OTHER                          -> <<"Thank", "you", ".">>

\* AutoReplyAgent.generateResponse: a response text or null.
generateResponse(intent) ==
    IF intent \in knowledgeBase THEN <<"kb", intent>>
    ELSE CASE intent = "information_request" -> <<"Thank", "you", "for", "your", "inquiry", ".">>
           [] intent = "bug_report"          -> <<"Thank", "you", "for", "reporting", ".">>
           [] intent = "feature_request"     -> <<"Thank", "you", "for", "your", "suggestion", ".">>
           [] OTHER                          -> Null

\* AutoReplyAgent.process with && for || in requiresHumanApproval.
AutoReplyDecisionBothNeeded(input, cfg) ==
    LET response   == generateResponse(input.intent)
        found      == Truthy(response)
        confidence == IF found THEN 900 ELSE 300
    IN  [action |-> IF found THEN "auto_reply" ELSE "escalate",
         confidence |-> confidence,
         requiresHumanApproval |-> ~found /\ confidence < cfg.confidenceThreshold,
         suggestedResponse |-> response,
         metadata |-> [EmptyMetadata EXCEPT !.intent = input.intent]]

\* The tentative decision of AutoReplyAgent.process.
AutoReplyDecision(input, cfg) ==
    LET response   == generateResponse(input.intent)
        found      == Truthy(response)
        confidence == IF found THEN 900 ELSE 300
    IN  [action |-> IF found THEN "auto_reply" ELSE "escalate",
         confidence |-> confidence,
         requiresHumanApproval |-> ~found \/ confidence < cfg.confidenceThreshold,
         suggestedResponse |-> response,
         metadata |-> [EmptyMetadata EXCEPT !.intent = input.intent]]

(***************************************************************************)
(* SummarizationAgent                                                       *)
(***************************************************************************)

\* The number of characters of a token.
TokenLength(w) ==
    CASE w = "." -> 1
      [] w \in {"to"} -> 2
      [] w \in {"Bug", "bug", "how", "app"} -> 3
      [] w \in {"help"} -> 4
      [] w \in {"hello", "debug", "error"} -> 5
      [] w \in {"URGENT", "cancel", "refund", "broken"} -> 6
      [] w \in {"feature", "helpful", "payment"} -> 7
      [] w \in {"security", "password"} -> 8
      [] OTHER -> 5

IsTerminator(w) == w = "."

\* The length of the string a token sequence stands for: a blank before
\* every token but the first, none before a terminator.
RECURSIVE StringLength(_)
StringLength(text) ==
    IF text = <<>> THEN 0
    ELSE LET n == Len(text)
             init == SubSeq(text, 1, n - 1)
         IN  StringLength(init) + TokenLength(text[n])
             + (IF n > 1 /\ ~IsTerminator(text[n]) THEN 1 ELSE 0)

\* text.match(/[^.!?]+[.!?]+/g) || []: the sentences, as index ranges
\* <<first, last>> of text.  A sentence is a run of words with the
\* terminators that follow it; words after the last terminator and
\* terminators before the first word belong to no sentence.
RECURSIVE SentencesFrom(_, _, _)
SentencesFrom(text, start, i) ==
    \* start: the index of the first word of the open sentence, or 0
    IF i > Len(text) THEN <<>>
    ELSE IF IsTerminator(text[i])
         THEN IF start = 0 THEN SentencesFrom(text, 0, i + 1)
              ELSE IF i < Len(text) /\ IsTerminator(text[i + 1])
                   THEN SentencesFrom(text, start, i + 1)
                   ELSE <<(<<start, i>>)>> \o SentencesFrom(text, 0, i + 1)
         ELSE SentencesFrom(text, IF start = 0 THEN i ELSE start, i + 1)

Sentences(text) == SentencesFrom(text, 0, 1)

\* The words SummarizationAgent.scoreSentence counts.
importantWords ==
    {"important", "critical", "urgent", "bug", "error", "feature", "request",
     "issue", "problem"}

\* A sentence s = <<first, last>> of text: its tokens, and the length of the
\* matched string (which keeps the blank that separates it from the
\* sentence before).
SentenceTokens(text, s) == SubSeq(text, s[1], s[2])
SentenceRawLength(text, s) ==
    StringLength(SentenceTokens(text, s)) + (IF s[1] > 1 THEN 1 ELSE 0)

\* scoreSentence: the number of important words the sentence includes, plus
\* 1 / (length / 100).  The score is the pair <<count, length>>; two scores
\* are compared exactly, as fractions.
scoreSentence(text, s) ==
    << Cardinality({w \in importantWords : Includes(SentenceTokens(text, s), <<w>>)}),
       SentenceRawLength(text, s) >>

ScoreGreater(a, b) == (a[1] * a[2] + 100) * b[2] > (b[1] * b[2] + 100) * a[2]

\* sort((a, b) => b.score - a.score): stable, by descending score.
RECURSIVE SortByScoreDesc(_, _)
SortByScoreDesc(text, ss) ==
    IF ss = <<>> THEN <<>>
    ELSE LET rest == SortByScoreDesc(text, SubSeq(ss, 1, Len(ss) - 1))
             s    == ss[Len(ss)]
             k    == Cardinality({i \in 1..Len(rest) :
                        ~ScoreGreater(scoreSentence(text, s),
                                      scoreSentence(text, rest[i]))})
         IN  SubSeq(rest, 1, k) \o <<s>> \o SubSeq(rest, k + 1, Len(rest))

RECURSIVE JoinSentences(_, _)
JoinSentences(text, ss) ==
    IF ss = <<>> THEN <<>>
    ELSE SentenceTokens(text, Head(ss)) \o JoinSentences(text, Tail(ss))

\* SummarizationAgent.summarize: [text, length] of the summary.  A summary
\* cut by substring(0, maxLength - 3) + '...' is written <<"<cut>", "...">>:
\* its characters are not modelled, its length is.
summarize(text, maxLength) ==
    LET sorted == SortByScoreDesc(text, Sentences(text))
        top    == SubSeq(sorted, 1, Min(3, Len(sorted)))
        joined == JoinSentences(text, top)
        length == StringLength(joined)
    IN  IF length > maxLength
        THEN [text |-> <<"<cut>", "...">>,
              length |-> Max(0, Min(length, maxLength - 3)) + 3,
              truncated |-> TRUE]
        ELSE [text |-> joined, length |-> length, truncated |-> FALSE]

\* SummarizationAgent.evaluateConfidence(result).  It reads
\* result.summaryLength and result.originalLength; where the result object
\* has no such fields their quotient is NaN, which is neither < 0.1 nor
\* > 0.5.
SummarizationEvaluateConfidence(result) ==
    IF {"summaryLength", "originalLength"} \subseteq DOMAIN result
    THEN IF 10 * result.summaryLength < result.originalLength THEN 600
         ELSE IF 2 * result.summaryLength > result.originalLength THEN 700
         ELSE 850
    ELSE 850

\* The tentative decision of SummarizationAgent.process.
SummarizationDecision(input, cfg) ==
    LET maxLength  == IF input.maxLength = 0 THEN 200 ELSE input.maxLength
        summary    == summarize(input.text, maxLength)
        confidence == SummarizationEvaluateConfidence(
                         [summary |-> summary.text, original |-> input.text])
    IN  [action |-> "summarize",
         confidence |-> confidence,
         requiresHumanApproval |-> FALSE,
         suggestedResponse |-> summary.text,
         metadata |-> [EmptyMetadata EXCEPT
                          !.originalLength = StringLength(input.text),
                          !.summaryLength = summary.length]]

(***************************************************************************)
(* process                                                                  *)
(***************************************************************************)

Agents == {"TriageAgent", "IntentDetectionAgent", "SummarizationAgent", "AutoReplyAgent"}

TentativeDecision(agent, input, cfg) ==
    CASE agent = "TriageAgent"          -> TriageDecision(input, cfg)
      [] agent = "IntentDetectionAgent" -> IntentDecision(input, cfg)
      [] agent = "SummarizationAgent"   -> SummarizationDecision(input, cfg)
      [] agent = "AutoReplyAgent"       -> AutoReplyDecision(input, cfg)

\* process with this.emit('decision', decision) moved before checkPolicies.
processOutcomeEmitsTentative(agent, tentative, pass) ==
    [agent     |-> agent,
     threw     |-> pass.threw,
     tentative |-> tentative,
     decision  |-> pass.decision,
     trace     |-> pass.trace,
     raised    |-> pass.raised,
     events    |-> <<tentative>>]

\* <Agent>.process(input) of an agent with the policy list ps: the tentative
\* decision, the policy pass, then the 'decision' event and the return
\* value.  threw: the call rejected (the policy pass raised) and neither
\* emitted nor returned anything.
processOutcome(agent, tentative, pass) ==
    [agent     |-> agent,
     threw     |-> pass.threw,
     tentative |-> tentative,
     decision  |-> pass.decision,
     trace     |-> pass.trace,
     raised    |-> pass.raised,
     events    |-> IF pass.threw THEN <<>> ELSE <<pass.decision>>]

process(agent, ps, input, cfg) ==
    Only({ processOutcome(agent, tentative, pass) :
             <<tentative, pass>> \in
                { <<t, checkPolicies(ps, input, t)>> :
                      t \in {TentativeDecision(agent, input, cfg)} } })

(***************************************************************************)
(* Inputs of the model                                                      *)
(***************************************************************************)

\* CONFIDENCE_THRESHOLD values: the default 0.8, the 0.95 of the agent
\* tests, and one below the 0.8 of the human-review policy.
Thresholds == {500, 800, 950}

Configs ==
    [confidenceThreshold : Thresholds,
     autoReplyEnabled : BOOLEAN,
     humanReviewRequired : BOOLEAN]

Rule(c, a, ps) == [condition |-> c, action |-> a, parameters |-> ps]

\* The default policy with enabled: true.
humanReviewPolicyAlwaysEnabled(cfg) ==
    [id |-> "human-review", priority |-> 100,
     enabled |-> TRUE,
     rules |-> <<Rule("decision.confidence < 0.8", "require_human_approval",
                      NoParameters)>>]

\* The default policy of QuDAGOrchestrator.initializeAgents.
humanReviewPolicy(cfg) ==
    [id |-> "human-review", priority |-> 100,
     enabled |-> cfg.humanReviewRequired,
     rules |-> <<Rule("decision.confidence < 0.8", "require_human_approval",
                      NoParameters)>>]

\* The policies a caller attaches with addPolicy.
PolicyPool ==
    { [id |-> "test-policy", priority |-> 100, enabled |-> TRUE,
       rules |-> <<Rule("decision.confidence < 0.5", "require_human_approval",
                        NoParameters),
                   Rule("true", "set_confidence", Parameters(950, "-", "-"))>>],
      [id |-> "overflow", priority |-> 60, enabled |-> TRUE,
       rules |-> <<Rule("true", "set_confidence", Parameters(1500, "-", "-"))>>],
      [id |-> "disabled", priority |-> 200, enabled |-> FALSE,
       rules |-> <<Rule("true", "require_human_approval", NoParameters)>>],
      [id |-> "audit", priority |-> 150, enabled |-> TRUE,
       rules |-> <<Rule("decision.confidence <", "require_human_approval", NoParameters),
                   Rule("true", "add_metadata", Parameters(-1, "-", "audited")),
                   Rule("true", "notify", NoParameters)>>],
      [id |-> "broken", priority |-> 10, enabled |-> TRUE,
       rules |-> <<Rule("true", "set_confidence", NoParameters)>>] }

\* Request texts.
Texts ==
    { <<"hello">>,
      <<"URGENT", "Bug", ".">>,
      <<"how", "to", "cancel", ".">>,
      <<"debug", "helpful">>,
      <<"feature", ".", "refund", ".">>,
      <<"What", "is", "broken", "?">>,
      <<"broken", "app", ".", "help", ".", "hello", "error", ".", "payment", ".">> }

\* The intent keys given to AutoReplyAgent.
IntentKeys ==
    {"cancellation", "refund_request", "information_request", "bug_report",
     "feature_request", "general_inquiry", "password_reset", "refund_policy",
     "technical_support", "unknown_intent"}

\* maxLength of a summarization input; 0: the field is absent.
MaxLengths == {0, 2, 10}

AgentInputs(agent) ==
    CASE agent = "TriageAgent" ->
            [subject : {<<"hello">>, <<"URGENT", "Bug", ".">>, <<"how">>},
             body : {<<"to", "cancel", ".">>, <<"debug", "helpful">>, <<"feature", ".">>,
                     <<"broken", "feature", ".">>}]
      [] agent = "IntentDetectionAgent" -> [text : Texts]
      [] agent = "SummarizationAgent"   -> [text : Texts, maxLength : MaxLengths]
      [] agent = "AutoReplyAgent"       -> [intent : IntentKeys]

\* The most policies attached to the stand-alone agent.
MaxPolicies == 3

(***************************************************************************)
(* AgentSpec: one stand-alone agent, its policies and its process calls     *)
(***************************************************************************)

NoCall ==
    [agent |-> "none", threw |-> FALSE, input |-> <<>>,
     tentative |-> <<>>, decision |-> <<>>, trace |-> <<>>, raised |-> {},
     events |-> <<>>]

\* The stand-alone agent is not in use.
AgentUnused == agentKind = "none" /\ policies = <<>> /\ lastCall = NoCall

\* QuDAGOrchestrator is not in use.
OrchUnused ==
    /\ agentPolicies = [a \in Agents |-> <<>>]
    /\ pc = "unused" /\ request = <<>> /\ decisions = <<>> /\ invoked = <<>>
    /\ outcome = <<>>

\* No graph: graphs.get(id) is undefined.
NoGraph == [rootId |-> 0, keys |-> <<>>, nodes |-> <<>>, edges |-> {},
            executionOrder |-> <<>>]

\* The request ids graphs are created for.
RequestIds == {"g1"}

\* The graph ids callers pass to addNode: "g2" is the id of no graph.
GraphIds == RequestIds \cup {"g2"}

\* The processRequest call SwarmSpec follows.
CallIds == {1}

\* The processRequest calls that can be in progress on one orchestrator.
PairIds == {1, 2}

\* node.result undefined.
NoResult == [type |-> "<undefined>", answer |-> <<>>, confidence |-> 0,
             overallConfidence |-> 0]

\* A processRequest call that was not made.
NoRequest == [id |-> "", subject |-> <<>>, body |-> <<>>]
IdleCall ==
    [pc |-> "idle", request |-> NoRequest, graph |-> NoGraph, order |-> <<>>,
     index |-> 0, decisions |-> <<>>, errors |-> <<>>,
     consensus |-> 0, recommendation |-> ""]

\* The constructor's defaults: new QuDAGSwarmOrchestrator().
DefaultSwarmConfig ==
    [maxAgents |-> 10, consensusThreshold |-> 700, quantumResistant |-> TRUE,
     darkAddressing |-> FALSE, onionRouting |-> FALSE]

\* The callers of spawnAgent.
Spawners == {1, 2, 3}

\* A spawnAgent call that was not made.
IdleSpawn == [pc |-> "idle", agentId |-> 0, error |-> ""]

\* No spawnAgent call was made.
PoolUnused ==
    /\ activeAgents = <<>>
    /\ spawns = [c \in Spawners |-> IdleSpawn]

\* No calculateConsensus call was made.
NoConsensusCall == [decisions |-> <<>>, called |-> FALSE, consensus |-> 0,
                    recommendation |-> ""]

\* No processRequest call was made on the swarm orchestrator.
RequestsUnused ==
    /\ swarmConfig = DefaultSwarmConfig
    /\ qdagInstance = FALSE
    /\ initState = "new"
    /\ calls = [c \in PairIds |-> IdleCall]
    /\ started = 0
    /\ PoolUnused

\* No list of decisions was given to calculateConsensus.
ConsensusUnused == consensusCall = NoConsensusCall

\* QuDAGSwarmOrchestrator is not in use.
SwarmUnused ==
    /\ graphs = [g \in GraphIds |-> NoGraph]
    /\ nextId = 1
    /\ apiError = ""
    /\ nodeAdded = {}
    /\ RequestsUnused
    /\ ConsensusUnused

\* The rate limiter of the database is not in use.
RateUnused ==
    /\ rateConfig = [windowMs |-> 0, max |-> 0]
    /\ rateLimits = <<>>
    /\ clock = 0
    /\ rateCalls = <<>>

\* No POST /support/create request was made.
IdleTicket ==
    [pc |-> "idle", body |-> [email |-> "", subject |-> "", message |-> ""],
     status |-> 0, trace |-> <<>>,
     agentResult |-> [finalAction |-> "", requiresApproval |-> FALSE,
                      decisions |-> <<>>]]

\* The issues the stored mappings and the webhook payloads name.
Issues == {1, 2}

\* No POST /webhooks/github request was made, on an empty database.
IdleHook ==
    [mappings |-> {}, originalMessages |-> [i \in Issues |-> "none"],
     pc |-> "idle",
     req |-> [signature |-> [present |-> FALSE, value |-> <<>>], event |-> "",
              action |-> "", issue |-> 1, comment |-> "none"],
     status |-> 0, body |-> "", sent |-> <<>>, calls |-> 0]

\* The two sources of incoming email: the polling loop and the IMAP IDLE
\* watcher of startEmailPolling.
Watchers == {"poll", "watch"}

\* A source that is not processing an email.
IdleWatcher == [pc |-> "idle", messageId |-> "", issue |-> 0]

\* No email was delivered: the tables email_messages and
\* github_issue_mappings are empty, GitHub has no issue and no comment.
IdleMail ==
    [emails |-> <<>>, mappings |-> {}, issues |-> <<>>, comments |-> <<>>,
     procs |-> [p \in Watchers |-> IdleWatcher], delivered |-> 0]

\* No agent action was recorded: the table agent_actions is empty.
IdleAdmin == [actions |-> <<>>]

\* The webhook, the email intake and the admin routes are not in use.
DeskUnused == hook = IdleHook /\ mail = IdleMail /\ admin = IdleAdmin

\* The HTTP routes and the database are not in use.
WebUnused == RateUnused /\ ticket = IdleTicket /\ DeskUnused

AgentInit ==
    /\ WebUnused
    /\ config \in {c \in Configs : ~c.autoReplyEnabled /\ c.humanReviewRequired}
    /\ agentKind \in Agents
    /\ policies = <<>>
    /\ lastCall = NoCall
    /\ OrchUnused
    /\ SwarmUnused

\* agent.addPolicy(policy)
AddPolicy(policy) ==
    /\ Len(policies) < MaxPolicies
    /\ policies' = addPolicy(policies, policy)
    /\ lastCall' = NoCall
    /\ UNCHANGED <<config, webVars, agentKind, orchVars, graphVars, swarmVars>>

\* await agent.process(input)
Process(input) ==
    /\ lastCall' = process(agentKind, policies, input, config)
                   @@ [input |-> input]
    /\ UNCHANGED <<config, webVars, agentKind, policies, orchVars, graphVars, swarmVars>>

AgentNext ==
    \/ \E policy \in PolicyPool : AddPolicy(policy)
    \/ \E input \in AgentInputs(agentKind) : Process(input)

AgentSpec == AgentInit /\ [][AgentNext]_vars

(***************************************************************************)
(* OrchSpec: QuDAGOrchestrator                                              *)
(***************************************************************************)

\* The requests given to QuDAGOrchestrator.processRequest.
Requests ==
    { [subject |-> <<"hello">>,           body |-> <<"hello", "app", ".">>],
      [subject |-> <<"URGENT", "Bug">>,   body |-> <<"broken", "app", ".">>],
      [subject |-> <<"Bug">>,             body |-> <<"broken", "app", ".", "error", ".">>],
      [subject |-> <<"how">>,             body |-> <<"to", "cancel", ".">>],
      [subject |-> <<"feature">>,         body |-> <<"feature", "app">>],
      [subject |-> <<"refund">>,          body |-> <<"payment", ".", "refund", ".">>],
      [subject |-> <<"how">>,             body |-> <<"URGENT", "password", ".">>] }

\* The policies a caller attaches to an agent of the orchestrator
\* (orchestrator.getAgent(name).addPolicy(policy)).
OrchPolicyPool ==
    { [id |-> "overflow", priority |-> 60, enabled |-> TRUE,
       rules |-> <<Rule("true", "set_confidence", Parameters(1500, "-", "-"))>>],
      [id |-> "lower", priority |-> 60, enabled |-> TRUE,
       rules |-> <<Rule("true", "set_confidence", Parameters(300, "-", "-"))>>],
      [id |-> "broken", priority |-> 10, enabled |-> TRUE,
       rules |-> <<Rule("true", "set_confidence", NoParameters)>>],
      [id |-> "retype", priority |-> 150, enabled |-> TRUE,
       rules |-> <<Rule("true", "add_metadata", Parameters(-1, "", "-"))>>],
      [id |-> "retype-kb", priority |-> 150, enabled |-> TRUE,
       rules |-> <<Rule("true", "add_metadata", Parameters(-1, "refund_policy", "-"))>>],
      [id |-> "approve-all", priority |-> 200, enabled |-> TRUE,
       rules |-> <<Rule("true", "require_human_approval", NoParameters)>>] }

\* The most policies a caller attaches to the orchestrator's agents.
MaxOrchPolicies == 1

\* QuDAGOrchestrator.initializeAgents: the four agents share one policy.
initializeAgents(cfg) == [a \in Agents |-> addPolicy(<<>>, humanReviewPolicy(cfg))]

OrchInit ==
    /\ WebUnused
    /\ config \in Configs
    /\ agentPolicies = initializeAgents(config)
    /\ pc = "idle" /\ request = <<>> /\ decisions = <<>> /\ invoked = <<>>
    /\ outcome = <<>>
    /\ AgentUnused
    /\ SwarmUnused

AddedPolicies ==
    Cardinality({<<a, i>> \in Agents \X (1..(MaxOrchPolicies + 1)) :
                    i <= Len(agentPolicies[a]) /\ agentPolicies[a][i].id # "human-review"})

\* orchestrator.getAgent(agent).addPolicy(policy)
OrchAddPolicy(agent, policy) ==
    /\ AddedPolicies < MaxOrchPolicies
    /\ agentPolicies' = [agentPolicies EXCEPT ![agent] = addPolicy(@, policy)]
    /\ UNCHANGED <<config, webVars, pc, request, decisions, invoked, outcome, agentVars, graphVars, swarmVars>>

\* The end of processRequest: requiresApproval, highestConfidence and the
\* final action, from the collected decisions ds.
RECURSIVE MaxConfidence(_)
MaxConfidence(ds) ==
    IF Len(ds) = 1 THEN ds[1].confidence
    ELSE Max(ds[1].confidence, MaxConfidence(Tail(ds)))

\* decisions.find(d => d.action === 'auto_reply'): its index, 0 if none.
FindAutoReply(ds) ==
    IF \E i \in 1..Len(ds) : ds[i].action = "auto_reply"
    THEN CHOOSE i \in 1..Len(ds) :
            /\ ds[i].action = "auto_reply"
            /\ \A j \in 1..(i - 1) : ds[j].action # "auto_reply"
    ELSE 0

\* The end of processRequest without its test of requiresApproval.
determineFinalActionUnapproved(ds, cfg) ==
    [decisions |-> ds,
     finalAction |->
        IF MaxConfidence(ds) > cfg.confidenceThreshold
           /\ FindAutoReply(ds) # 0
           /\ Truthy(ds[FindAutoReply(ds)].suggestedResponse)
        THEN "auto_reply" ELSE "escalate",
     requiresApproval |-> \E i \in 1..Len(ds) : ds[i].requiresHumanApproval]

determineFinalAction(ds, cfg) ==
    LET requiresApproval  == \E i \in 1..Len(ds) : ds[i].requiresHumanApproval
        highestConfidence == MaxConfidence(ds)
        k                 == FindAutoReply(ds)
        finalAction ==
            IF ~requiresApproval /\ highestConfidence > cfg.confidenceThreshold
            THEN IF k # 0 /\ Truthy(ds[k].suggestedResponse)
                 THEN "auto_reply" ELSE "escalate"
            ELSE "escalate"
    IN  [decisions |-> ds, finalAction |-> finalAction,
         requiresApproval |-> requiresApproval]

\* processRequest(input): up to the first await.
ProcessRequest(input) ==
    /\ pc \in {"idle", "done", "rejected"}
    /\ pc' = "triage"
    /\ request' = input
    /\ decisions' = <<>>
    /\ invoked' = <<>>
    /\ outcome' = <<>>
    /\ UNCHANGED <<config, webVars, agentPolicies, agentVars, graphVars, swarmVars>>

\* One awaited agent.process(input) of processRequest: the decision is
\* pushed, or the rejection leaves processRequest.
AwaitAgent(agent, input, next) ==
    \E call \in {process(agent, agentPolicies[agent], input, config)} :
        /\ invoked' = Append(invoked, agent)
        /\ IF call.threw
           THEN /\ pc' = "rejected"
                /\ UNCHANGED <<decisions, outcome>>
           ELSE /\ decisions' = Append(decisions, call.decision)
                /\ IF next = "done"
                   THEN /\ pc' = "done"
                        /\ outcome' = determineFinalAction(decisions', config)
                   ELSE /\ pc' = next
                        /\ UNCHANGED outcome
        /\ UNCHANGED <<config, webVars, agentPolicies, request, agentVars, graphVars, swarmVars>>

\* Phase 1
TriagePhase ==
    /\ pc = "triage"
    /\ AwaitAgent("TriageAgent", request, "intent")

\* Phase 2
IntentPhase ==
    /\ pc = "intent"
    /\ AwaitAgent("IntentDetectionAgent", [text |-> SubjectAndBody(request)], "summarize")

\* The test of phase 4 without autoReplyEnabled.
autoReplyAlways(intentDecision, cfg) == intentDecision.metadata.type # ""

\* if (intentDecision.metadata?.type && config.agent.autoReplyEnabled)
autoReplyAppropriate(intentDecision, cfg) ==
    intentDecision.metadata.type # "" /\ cfg.autoReplyEnabled

\* Phase 3, and the end of processRequest when phase 4 is skipped.
SummarizePhase ==
    /\ pc = "summarize"
    /\ AwaitAgent("SummarizationAgent", [text |-> request.body, maxLength |-> 0],
                  IF autoReplyAppropriate(decisions[2], config)
                  THEN "autoreply" ELSE "done")

\* Phase 4, and the end of processRequest.
AutoReplyPhase ==
    /\ pc = "autoreply"
    /\ AwaitAgent("AutoReplyAgent", [intent |-> decisions[2].metadata.type], "done")

OrchNext ==
    \/ \E a \in Agents, policy \in OrchPolicyPool : OrchAddPolicy(a, policy)
    \/ \E input \in Requests : ProcessRequest(input)
    \/ TriagePhase
    \/ IntentPhase
    \/ SummarizePhase
    \/ AutoReplyPhase

OrchSpec == OrchInit /\ [][OrchNext]_vars

(***************************************************************************)
(* Question graphs (QuDAGSwarmOrchestrator)                                 *)
(***************************************************************************)

\* node.parent undefined.
NoParent == 0

\* A graph is [rootId, keys, nodes, edges, executionOrder]: nodes maps a node
\* id to its node, keys lists the ids in the insertion order of the Map,
\* edges is the key set of the edges Map (every value is []).
\* A node is [id, type, content, parent, children, dependencies, status,
\* result, fingerprinted]; fingerprinted says that node.metadata holds a
\* fingerprint.
Node(id, type, content, parent, dependencies, status) ==
    [id |-> id, type |-> type, content |-> content, parent |-> parent,
     children |-> <<>>, dependencies |-> dependencies, status |-> status,
     result |-> NoResult, fingerprinted |-> FALSE]

\* f with the value v at the (new or old) key k.
Put(f, k, v) == [x \in DOMAIN f \cup {k} |-> IF x = k THEN v ELSE f[x]]

\* updateExecutionOrder: visit(nodeId) from the state st = [visited, order],
\* and the loop over a list of ids.
RECURSIVE visit(_, _, _), visitEach(_, _, _)
visit(nodes, nodeId, st) ==
    IF nodeId \in st.visited THEN st
    ELSE IF nodeId \notin DOMAIN nodes THEN st
    ELSE \* Visit dependencies first
         Only({ [visited |-> st1.visited \cup {nodeId},
                 order   |-> Append(st1.order, nodeId)] :
                   st1 \in {visitEach(nodes, nodes[nodeId].dependencies, st)} })

visitEach(nodes, ids, st) ==
    IF ids = <<>> THEN st
    ELSE visitEach(nodes, Tail(ids), visit(nodes, Head(ids), st))

\* updateExecutionOrder without its second loop over graph.nodes.keys().
executionOrderFromRoot(graph) ==
    visit(graph.nodes, graph.rootId, [visited |-> {}, order |-> <<>>]).order

\* updateExecutionOrder pushing onto graph.executionOrder rather than onto
\* a new array.
updateExecutionOrderAppending(graph) ==
    graph.executionOrder
    \o visitEach(graph.nodes, <<graph.rootId>> \o graph.keys,
                 [visited |-> {}, order |-> <<>>]).order

\* updateExecutionOrder(graph): the new graph.executionOrder.
updateExecutionOrder(graph) ==
    visitEach(graph.nodes, <<graph.rootId>> \o graph.keys,
              [visited |-> {}, order |-> <<>>]).order

\* createGraph with one id for the root node of every graph.
createGraphSharedRoot(id, initialQuestion) ==
    [rootId |-> 1,
     keys |-> <<1>>,
     nodes |-> Put(<<>>, 1, Node(1, "question", initialQuestion, NoParent,
                                 <<>>, "pending")),
     edges |-> {},
     executionOrder |-> <<1>>]

\* createGraph(requestId, initialQuestion): the new graph, its root id.
createGraph(id, initialQuestion) ==
    [rootId |-> id,
     keys |-> <<id>>,
     nodes |-> Put(<<>>, id, Node(id, "question", initialQuestion, NoParent,
                                  <<>>, "pending")),
     edges |-> {},
     executionOrder |-> <<id>>]

\* addNode with the new id pushed to the parent's children twice.
addNodeToPushedTwice(graph, node, id) ==
    Only({ [g EXCEPT !.executionOrder = updateExecutionOrder(g)] :
             g \in { [graph EXCEPT
                        !.keys = Append(@, id),
                        !.nodes =
                            Only({ IF node.parent # NoParent /\ node.parent \in DOMAIN ns
                                   THEN [ns EXCEPT ![node.parent].children =
                                                       Append(Append(@, id), id)]
                                   ELSE ns :
                                     ns \in {Put(graph.nodes, id, [node EXCEPT !.id = id])} }),
                        !.edges = @ \cup {id}] } })

\* addNode(graphId, node) on the graph it found; id is the fresh uuid.
addNodeTo(graph, node, id) ==
    Only({ [g EXCEPT !.executionOrder = updateExecutionOrder(g)] :
             g \in { [graph EXCEPT
                        !.keys = Append(@, id),
                        !.nodes =
                            Only({ IF node.parent # NoParent /\ node.parent \in DOMAIN ns
                                   THEN [ns EXCEPT ![node.parent].children = Append(@, id)]
                                   ELSE ns :
                                     ns \in {Put(graph.nodes, id, [node EXCEPT !.id = id])} }),
                        !.edges = @ \cup {id}] } })

(***************************************************************************)
(* GraphSpec: createGraph and addNode calls                                 *)
(***************************************************************************)

\* The most ids uuidv4() hands out.
MaxIds == 3

\* The ids a caller can know: those handed out so far, and one (0) that was
\* never a node id.
KnownIds == 0..(nextId - 1)

\* The parents a caller names: none, the first id handed out, the latest.
ParentIds == {NoParent, 1, nextId - 1}

\* The dependency lists of an added node: up to two different ids.
DependencyLists ==
    {<<>>} \cup {<<a>> : a \in KnownIds}
    \cup {<<a, b>> : <<a, b>> \in {p \in KnownIds \X KnownIds : p[1] # p[2]}}

\* The nodes a caller adds (Omit<QuDAGNode, 'id' | 'timestamp'>).
NodeSpecs ==
    { Node(0, "analysis", <<"Analyze", "the", "request">>, parent, deps, "pending") :
        parent \in ParentIds, deps \in DependencyLists }

GraphInit ==
    /\ WebUnused
    /\ config \in {c \in Configs : c.confidenceThreshold = 800
                                   /\ ~c.autoReplyEnabled /\ c.humanReviewRequired}
    /\ graphs = [g \in GraphIds |-> NoGraph]
    /\ nextId = 1
    /\ apiError = ""
    /\ nodeAdded = {}
    /\ RequestsUnused
    /\ ConsensusUnused
    /\ AgentUnused
    /\ OrchUnused

\* orchestrator.createGraph(requestId, initialQuestion)
CreateGraph(requestId) ==
    /\ nextId <= MaxIds
    /\ graphs' = [graphs EXCEPT ![requestId] =
                     createGraph(nextId, <<"How", "should", "we", "handle", "this", "?">>)]
    /\ nextId' = nextId + 1
    /\ apiError' = ""
    /\ UNCHANGED <<nodeAdded, config, webVars, agentVars, orchVars, swarmVars>>

\* `Graph ${graphId} not found`
GraphNotFound(graphId) ==
    CASE graphId = "g1" -> "Graph g1 not found"
      [] graphId = "g2" -> "Graph g2 not found"

\* addNode with the 'nodeAdded' event emitted before the graph is looked up.
AddNodeEmitsFirst(graphId, node) ==
    IF graphs[graphId] = NoGraph
    THEN /\ apiError' = GraphNotFound(graphId)
         /\ nodeAdded' = nodeAdded \cup {<<graphId, nextId>>}
         /\ UNCHANGED <<graphs, nextId, config, webVars, agentVars, orchVars, swarmVars>>
    ELSE /\ nextId <= MaxIds
         /\ graphs' = [graphs EXCEPT ![graphId] = addNodeTo(@, node, nextId)]
         /\ nextId' = nextId + 1
         /\ apiError' = ""
         /\ nodeAdded' = nodeAdded \cup {<<graphId, nextId>>}
         /\ UNCHANGED <<config, webVars, agentVars, orchVars, swarmVars>>

\* orchestrator.addNode(graphId, node)
AddNode(graphId, node) ==
    IF graphs[graphId] = NoGraph
    THEN /\ apiError' = GraphNotFound(graphId)
         /\ UNCHANGED <<graphs, nextId, nodeAdded, config, webVars, agentVars, orchVars, swarmVars>>
    ELSE /\ nextId <= MaxIds
         /\ graphs' = [graphs EXCEPT ![graphId] = addNodeTo(@, node, nextId)]
         /\ nextId' = nextId + 1
         /\ apiError' = ""
         /\ nodeAdded' = nodeAdded \cup {<<graphId, nextId>>}
         /\ UNCHANGED <<config, webVars, agentVars, orchVars, swarmVars>>

GraphNext ==
    \/ \E requestId \in RequestIds : CreateGraph(requestId)
    \/ \E graphId \in GraphIds, node \in NodeSpecs : AddNode(graphId, node)

GraphSpec == GraphInit /\ [][GraphNext]_vars

(***************************************************************************)
(* QuDAGSwarmOrchestrator.processRequest                                    *)
(***************************************************************************)

\* `${request.subject} ${request.body}`
SwarmText(context) == context.subject \o context.body

Result(type, answer, confidence) ==
    [type |-> type, answer |-> answer, confidence |-> confidence,
     overallConfidence |-> 0]

\* decomposeQuestion without the context-specific questions.
decomposeQuestionBaseOnly(req) ==
    << <<"What", "is", "the", "primary", "intent", "of", "this", "request?">>,
       <<"What", "category", "does", "this", "request", "belong", "to?">>,
       <<"What", "is", "the", "urgency", "level?">>,
       <<"Is", "this", "a", "known", "issue", "with", "existing", "solution?">>,
       <<"Can", "this", "be", "handled", "automatically?">>,
       <<"What", "resources", "are", "needed", "to", "resolve", "this?">>,
       <<"What", "is", "the", "estimated", "resolution", "time?">>,
       <<"Should", "this", "be", "escalated", "to", "human", "support?">> >>

\* decomposeQuestion(request)
decomposeQuestion(req) ==
    << <<"What", "is", "the", "primary", "intent", "of", "this", "request?">>,
       <<"What", "category", "does", "this", "request", "belong", "to?">>,
       <<"What", "is", "the", "urgency", "level?">>,
       <<"Is", "this", "a", "known", "issue", "with", "existing", "solution?">>,
       <<"Can", "this", "be", "handled", "automatically?">>,
       <<"What", "resources", "are", "needed", "to", "resolve", "this?">>,
       <<"What", "is", "the", "estimated", "resolution", "time?">>,
       <<"Should", "this", "be", "escalated", "to", "human", "support?">> >>
    \o (IF IncludesAny(SwarmText(req), {<<"bug">>, <<"error">>})
        THEN << <<"What", "is", "the", "severity", "of", "this", "bug?">>,
                <<"Can", "we", "reproduce", "this", "issue?">> >>
        ELSE <<>>)
    \o (IF IncludesAny(SwarmText(req), {<<"payment">>, <<"billing">>})
        THEN << <<"Is", "this", "a", "billing", "dispute?">>,
                <<"Does", "this", "require", "financial", "team", "involvement?">> >>
        ELSE <<>>)
    \o (IF IncludesAny(SwarmText(req), {<<"security">>, <<"breach">>})
        THEN << <<"Is", "this", "a", "security", "incident?">>,
                <<"Should", "we", "trigger", "security", "protocols?">> >>
        ELSE <<>>)

\* The helper methods for question processing.
swarmDetectIntent(context) ==
    CASE Includes(SwarmText(context), <<"refund">>)  -> Result("question", <<"refund_request">>, 900)
      [] Includes(SwarmText(context), <<"bug">>)     -> Result("question", <<"bug_report">>, 850)
      [] Includes(SwarmText(context), <<"feature">>) -> Result("question", <<"feature_request">>, 800)
      [] Includes(SwarmText(context), <<"help">>)    -> Result("question", <<"support_request">>, 750)
      [] OTHER                                       -> Result("question", <<"general_inquiry">>, 500)

swarmCategorize(context) ==
    LET categories ==
            SelectSeq(<<"technical", "billing", "account", "security">>,
                      LAMBDA k : Includes(SwarmText(context), <<k>>))
    IN  IF categories = <<>>
        THEN Result("question", <<"general">>, 750)
        ELSE Result("question", categories,
                    \* 0.7 + 2 * 0.05 and 0.7 + 4 * 0.05 fall one ulp short
                    CASE Len(categories) = 1 -> 750
                      [] Len(categories) = 2 -> 799
                      [] Len(categories) = 3 -> 850
                      [] OTHER               -> 899)

assessUrgency(context) ==
    IF IncludesAny(SwarmText(context), {<<"urgent">>, <<"critical">>})
    THEN Result("question", <<"high">>, 950)
    ELSE IF IncludesAny(SwarmText(context), {<<"asap">>, <<"important">>})
    THEN Result("question", <<"medium">>, 800)
    ELSE Result("question", <<"normal">>, 700)

canAutomate(context) ==
    IF swarmDetectIntent(context).answer \in {<<"general_inquiry">>, <<"support_request">>}
    THEN Result("question", <<"true">>, 700)
    ELSE Result("question", <<"false">>, 800)

shouldEscalate(context) ==
    IF assessUrgency(context).answer = <<"high">>
    THEN Result("question", <<"true">>, 900)
    ELSE IF IncludesAny(SwarmText(context), {<<"legal">>, <<"security">>, <<"breach">>})
    THEN Result("question", <<"true">>, 950)
    ELSE Result("question", <<"false">>, 600)

\* processQuestion with a confident answer to the questions it has no rule for.
processQuestionConfident(node, context) ==
    CASE Includes(node.content, <<"intent">>)        -> swarmDetectIntent(context)
      [] Includes(node.content, <<"category">>)      -> swarmCategorize(context)
      [] Includes(node.content, <<"urgency">>)       -> assessUrgency(context)
      [] Includes(node.content, <<"automatically">>) -> canAutomate(context)
      [] Includes(node.content, <<"escalate">>)      -> shouldEscalate(context)
      [] OTHER -> Result("question", <<"Unable to process question">>, 1000)

\* processQuestion(node, context)
processQuestion(node, context) ==
    CASE Includes(node.content, <<"intent">>)        -> swarmDetectIntent(context)
      [] Includes(node.content, <<"category">>)      -> swarmCategorize(context)
      [] Includes(node.content, <<"urgency">>)       -> assessUrgency(context)
      [] Includes(node.content, <<"automatically">>) -> canAutomate(context)
      [] Includes(node.content, <<"escalate">>)      -> shouldEscalate(context)
      [] OTHER -> Result("question", <<"Unable to process question">>, 300)

RECURSIVE SumSeq(_)
SumSeq(xs) == IF xs = <<>> THEN 0 ELSE Head(xs) + SumSeq(Tail(xs))

\* The largest r in lo..hi with r * r <= v.
RECURSIVE SqrtBetween(_, _, _)
SqrtBetween(v, lo, hi) ==
    IF lo >= hi THEN lo
    ELSE IF ((lo + hi + 1) \div 2) * ((lo + hi + 1) \div 2) <= v
         THEN SqrtBetween(v, (lo + hi + 1) \div 2, hi)
         ELSE SqrtBetween(v, lo, ((lo + hi + 1) \div 2) - 1)

\* Math.sqrt on a variance given in millionths: the root in thousandths,
\* rounded down.
Sqrt(v) == SqrtBetween(v, 0, 46340)

\* average * Math.sqrt(variance): the score without the "1 -".
ConsensusScoreSpread(confidences) ==
    Only({ (average * Sqrt(variance)) \div 1000 :
             <<average, variance>> \in
                { <<a, SumSeq([i \in 1..Len(confidences) |->
                                  (confidences[i] - a) * (confidences[i] - a)])
                       \div Len(confidences)>> :
                    a \in {SumSeq(confidences) \div Len(confidences)} } })

\* The average, the variance and the score of calculateConsensus, in
\* thousandths; each is rounded down to the unit it is kept in.
ConsensusScore(confidences) ==
    Only({ (average * (1000 - Sqrt(variance))) \div 1000 :
             <<average, variance>> \in
                { <<a, SumSeq([i \in 1..Len(confidences) |->
                                  (confidences[i] - a) * (confidences[i] - a)])
                       \div Len(confidences)>> :
                    a \in {SumSeq(confidences) \div Len(confidences)} } })

\* return consensusScore, without the clamp.
ClampDropped(consensusScore) == consensusScore

\* Math.min(Math.max(consensusScore, 0), 1)
Clamp(consensusScore) == Min(Max(consensusScore, 0), 1000)

\* d.confidence || d.overallConfidence || 0
CollectedConfidence(d) ==
    IF d.confidence # 0 THEN d.confidence ELSE d.overallConfidence

\* calculateConsensus(decisions), in thousandths.
calculateConsensus(ds) ==
    Only({ IF confidences = <<>> THEN 0 ELSE Clamp(ConsensusScore(confidences)) :
             confidences \in
                { SelectSeq([i \in 1..Len(ds) |-> CollectedConfidence(ds[i])],
                            LAMBDA c : c > 0) } })

\* synthesizeRecommendation with >= for >.
synthesizeRecommendationInclusive(consensus) ==
    IF consensus >= 800 THEN "High confidence - proceed with automated response"
    ELSE IF consensus >= 600
    THEN "Medium confidence - suggest automated response with human review"
    ELSE "Low confidence - escalate to human support"

\* synthesizeRecommendation(decisions, consensus)
synthesizeRecommendation(consensus) ==
    IF consensus > 800 THEN "High confidence - proceed with automated response"
    ELSE IF consensus > 600
    THEN "Medium confidence - suggest automated response with human review"
    ELSE "Low confidence - escalate to human support"

\* processSynthesis(node, context, previousDecisions)
processSynthesis(previousDecisions, cfg) ==
    [type |-> "synthesis",
     answer |-> IF calculateConsensus(previousDecisions) > cfg.consensusThreshold
                THEN <<"Proceed with automated handling">>
                ELSE <<"Escalate to human review">>,
     confidence |-> 0,
     overallConfidence |-> calculateConsensus(previousDecisions)]

\* processDecision(node, context, previousDecisions)
processDecision(previousDecisions, cfg) ==
    Result("decision",
           IF calculateConsensus(previousDecisions) > cfg.consensusThreshold
           THEN <<"approve">> ELSE <<"review">>,
           0)

\* The switch on node.type in executeGraph.
processNode(node, context, previousDecisions, cfg) ==
    CASE node.type = "question"  -> processQuestion(node, context)
      [] node.type = "analysis"  -> Result("analysis", <<"Analyzed">> \o context.subject, 700)
      [] node.type = "synthesis" -> processSynthesis(previousDecisions, cfg)
      [] node.type = "action"    -> Result("action", <<"notify">>, 800)
      [] node.type = "decision"  -> processDecision(previousDecisions, cfg)
      [] OTHER                   -> Result("<none>", <<"Unknown node type">>, 0)

\* addNode for each of the sub-questions, ids counted from id.
RECURSIVE addQuestions(_, _, _)
addQuestions(graph, questions, id) ==
    IF questions = <<>> THEN graph
    ELSE addQuestions(
            addNodeTo(graph,
                      Node(0, "question", Head(questions), graph.rootId, <<>>, "pending"),
                      id),
            Tail(questions), id + 1)

\* graph with node.status = 'processing' for the node with the given id.
beginNode(graph, nodeId) ==
    [graph EXCEPT !.nodes[nodeId].status = "processing"]

\* executeGraph after node.result and node.status = 'completed' were skipped.
completeNodeStatusKept(graph, nodeId, result) ==
    [graph EXCEPT !.nodes[nodeId].result = result]

\* node.result = result; node.status = 'completed'
completeNode(graph, nodeId, result) ==
    [graph EXCEPT !.nodes[nodeId].result = result,
                  !.nodes[nodeId].status = "completed"]

\* node.metadata = { ...node.metadata, fingerprint }
fingerprintNode(graph, nodeId) ==
    [graph EXCEPT !.nodes[nodeId].fingerprinted = TRUE]

\* A catch block that only logs.
catchErrorStatusKept(graph, nodeId) == graph

\* The catch block of executeGraph: node.status = 'failed'
catchError(graph, nodeId) ==
    [graph EXCEPT !.nodes[nodeId].status = "failed"]

\* The first position after i of executionOrder whose id is a node of the
\* graph (if (!node) continue), or one past the end.
RECURSIVE nextIndex(_, _, _)
nextIndex(graph, order, i) ==
    IF i + 1 > Len(order) THEN Len(order) + 1
    ELSE IF order[i + 1] \in DOMAIN graph.nodes THEN i + 1
    ELSE nextIndex(graph, order, i + 1)

\* The for loop of executeGraph moves on from the node at call.index: to the
\* next node, which starts processing, or past the last one, to the return
\* of executeGraph and of processRequest.
advance(call) ==
    Only({ IF j > Len(call.order)
           THEN Only({ [call EXCEPT
                          !.pc = "returned", !.index = j,
                          !.consensus = consensus,
                          !.recommendation = synthesizeRecommendation(consensus)] :
                         consensus \in {calculateConsensus(call.decisions)} })
           ELSE [call EXCEPT
                   !.pc = "handler", !.index = j,
                   !.graph = beginNode(call.graph, call.order[j])] :
             j \in {nextIndex(call.graph, call.order, call.index)} })

\* What graphs.get(id) shows after a call changed a node of its graph: the
\* call's graph, unless the id is registered to another graph by now.
StoreGraph(gs, id, graph) ==
    IF gs[id].rootId = graph.rootId THEN [gs EXCEPT ![id] = graph] ELSE gs

(***************************************************************************)
(* SwarmSpec: initialize and processRequest calls on one swarm orchestrator *)
(***************************************************************************)

\* The most processRequest calls made.
MaxCalls == 1

\* The most createFingerprint rejections during one processRequest call.
MaxFailures == 1

\* The configurations the orchestrator is constructed with: the defaults,
\* the all-false one server.ts passes, and ones that switch the QuDAG node on.
SwarmConfigs ==
    { DefaultSwarmConfig,
      [DefaultSwarmConfig EXCEPT !.quantumResistant = FALSE],
      [DefaultSwarmConfig EXCEPT !.darkAddressing = TRUE],
      [DefaultSwarmConfig EXCEPT !.onionRouting = TRUE],
      [DefaultSwarmConfig EXCEPT !.quantumResistant = FALSE, !.darkAddressing = TRUE] }

\* The well-formed requests given to processRequest.
SwarmRequests ==
    { [id |-> "g1", subject |-> <<"hello">>,         body |-> <<"hello", "app", ".">>],
      [id |-> "g1", subject |-> <<"URGENT", "Bug">>, body |-> <<"broken", "app", ".">>],
      [id |-> "g1", subject |-> <<"refund">>,
                    body |-> <<"payment", ".", "security", "billing", ".">>],
      [id |-> "g1", subject |-> <<"urgency">>,
                    body |-> <<"debug", "error", "payment", "breach", "asap">>] }

SwarmInit ==
    /\ WebUnused
    /\ config \in {c \in Configs : c.confidenceThreshold = 800
                                   /\ ~c.autoReplyEnabled /\ c.humanReviewRequired}
    /\ graphs = [g \in GraphIds |-> NoGraph]
    /\ nextId = 1
    /\ apiError = ""
    /\ nodeAdded = {}
    /\ swarmConfig \in SwarmConfigs
    /\ qdagInstance = FALSE
    /\ initState = "new"
    /\ calls = [c \in PairIds |-> IdleCall]
    /\ started = 0
    /\ PoolUnused
    /\ consensusCall = NoConsensusCall
    /\ AgentUnused
    /\ OrchUnused

\* orchestrator.initialize(): QuDAG.start() and QuDAG.registerAddress()
\* each resolve or reject.  The server awaits initialize() before it serves
\* requests (server.ts), so it runs while no processRequest call is under way.
Initialize ==
    /\ initState = "new"
    /\ \A c \in PairIds : calls[c].pc \in {"idle", "returned"}
    /\ IF swarmConfig.darkAddressing \/ swarmConfig.onionRouting
       THEN \E startOk \in BOOLEAN, registerOk \in BOOLEAN :
               /\ qdagInstance' = (qdagInstance \/ startOk)
               /\ initState' = IF startOk /\ (swarmConfig.darkAddressing => registerOk)
                               THEN "initialized" ELSE "failed"
       ELSE /\ initState' = "initialized"
            /\ UNCHANGED qdagInstance
    /\ UNCHANGED <<config, webVars, agentVars, orchVars, graphVars, swarmConfig, calls, started,
                   poolVars, consensusCall>>

\* processRequest(request) up to its first await: createGraph, the addNode
\* calls, and executeGraph up to the handler of the first node.
StartRequest(c, req) ==
    /\ calls[c].pc \in {"idle", "returned"}
    /\ started' = started + 1
    /\ \E questions \in {decomposeQuestion(req)} :
       \E graph \in {addQuestions(
                        createGraph(nextId,
                                    <<"How", "should", "we", "handle", "support", "request:">>
                                    \o req.subject \o <<"?">>),
                        questions, nextId + 1)} :
       \E call \in {advance([IdleCall EXCEPT !.request = req, !.graph = graph,
                                             !.order = graph.executionOrder])} :
          /\ calls' = [calls EXCEPT ![c] = call]
          /\ graphs' = [graphs EXCEPT ![req.id] = call.graph]
          /\ nextId' = nextId + 1 + Len(questions)
          /\ nodeAdded' = nodeAdded \cup {<<req.id, nextId + i>> : i \in 1..Len(questions)}
    /\ apiError' = ""
    /\ UNCHANGED <<config, webVars, agentVars, orchVars, swarmConfig, qdagInstance, initState,
                   poolVars, consensusCall>>

\* One processRequest call after the other, MaxCalls of them.
SwarmProcessRequest(c, req) ==
    /\ started < MaxCalls
    /\ StartRequest(c, req)

\* The call c carries on with the record call.
Continue(c, call) ==
    /\ calls' = [calls EXCEPT ![c] = call]
    /\ graphs' = StoreGraph(graphs, call.request.id, call.graph)
    /\ UNCHANGED <<config, webVars, agentVars, orchVars, nextId, apiError, nodeAdded, swarmConfig,
                   qdagInstance, initState, started, poolVars, consensusCall>>

\* The handler of the node in hand returned: result, status and decisions
\* are set, and executeGraph awaits the fingerprint or moves on.
HandlerReturns(c) ==
    /\ calls[c].pc = "handler"
    /\ \E nodeId \in {calls[c].order[calls[c].index]} :
       \E result \in {processNode(calls[c].graph.nodes[nodeId], calls[c].request,
                                  calls[c].decisions, swarmConfig)} :
       \E call \in {[calls[c] EXCEPT
                        !.graph = completeNode(@, nodeId, result),
                        !.decisions = Append(@, result)]} :
       \E next \in {IF swarmConfig.quantumResistant /\ qdagInstance
                     THEN [call EXCEPT !.pc = "fingerprint"]
                     ELSE advance(call)} :
          Continue(c, next)

\* QuDAG.createFingerprint resolved.
FingerprintResolves(c) ==
    /\ calls[c].pc = "fingerprint"
    /\ \E nodeId \in {calls[c].order[calls[c].index]} :
       \E call \in {[calls[c] EXCEPT !.graph = fingerprintNode(@, nodeId)]} :
       \E next \in {advance(call)} :
          Continue(c, next)

\* QuDAG.createFingerprint rejected: the catch block runs.
FingerprintRejects(c) ==
    /\ calls[c].pc = "fingerprint"
    /\ Len(calls[c].errors) < MaxFailures
    /\ \E nodeId \in {calls[c].order[calls[c].index]} :
       \E call \in {[calls[c] EXCEPT !.graph = catchError(@, nodeId),
                                     !.errors = Append(@, nodeId)]} :
       \E next \in {advance(call)} :
          Continue(c, next)

SwarmNext ==
    \/ Initialize
    \/ \E req \in SwarmRequests : SwarmProcessRequest(1, req)
    \/ \E c \in CallIds : HandlerReturns(c)
    \/ \E c \in CallIds : FingerprintResolves(c)
    \/ \E c \in CallIds : FingerprintRejects(c)

SwarmSpec == SwarmInit /\ [][SwarmNext]_vars

\* The promises executeGraph awaits are settled: a handler returns, and
\* createFingerprint resolves unless it rejects.
SwarmFairSpec ==
    /\ SwarmSpec
    /\ \A c \in CallIds : WF_vars(HandlerReturns(c))
    /\ \A c \in CallIds : WF_vars(FingerprintResolves(c))

(***************************************************************************)
(* PairSpec: two processRequest calls in progress on one swarm orchestrator *)
(***************************************************************************)

\* The requests of the two calls: the second call uses the id of the first
\* or another id.
PairRequests ==
    [ c \in PairIds |->
        IF c = 1
        THEN { [id |-> "g1", subject |-> <<"hello">>, body |-> <<"hello", "app", ".">>] }
        ELSE { [id |-> "g1", subject |-> <<"URGENT", "Bug">>,
                             body |-> <<"broken", "app", ".">>],
               [id |-> "g2", subject |-> <<"refund">>,
                             body |-> <<"payment", ".", "security", "billing", ".">>] } ]

\* Each of the two callers calls processRequest once, at any time: also
\* while the other call is at an await of executeGraph.  One createFingerprint
\* promise of the two calls may reject.
PairNext ==
    \/ Initialize
    \/ \E c \in PairIds : \E req \in PairRequests[c] :
          calls[c].pc = "idle" /\ StartRequest(c, req)
    \/ \E c \in PairIds : HandlerReturns(c)
    \/ \E c \in PairIds : FingerprintResolves(c)
    \/ \E c \in PairIds :
          /\ \A d \in PairIds : calls[d].errors = <<>>
          /\ FingerprintRejects(c)

PairSpec == SwarmInit /\ [][PairNext]_vars

(***************************************************************************)
(* ConsensusSpec: calculateConsensus and synthesizeRecommendation calls     *)
(***************************************************************************)

\* The most decisions in a list given to calculateConsensus.
MaxDecisions == 3

\* The confidences of the decisions: values a handler or an agent returns,
\* the two sides of the recommendation thresholds, values beyond [0, 1] as
\* a policy can set them, and a negative one.
ConfidenceValues == {300, 600, 601, 800, 801, 1000, 1500, 5000, -500}

\* The decisions: results with a confidence, a synthesis result, which has
\* an overallConfidence only, and a decision result, which has neither.
ConsensusDecisions ==
    {Result("question", <<>>, c) : c \in ConfidenceValues}
    \cup {[type |-> "synthesis", answer |-> <<>>, confidence |-> 0,
           overallConfidence |-> 700],
          Result("decision", <<>>, 0)}

RECURSIVE SeqsUpTo(_, _)
\* The sequences over S of length at most n.
SeqsUpTo(S, n) ==
    IF n = 0 THEN {<<>>}
    ELSE SeqsUpTo(S, n - 1)
         \cup {Append(q, x) : q \in {r \in SeqsUpTo(S, n - 1) : Len(r) = n - 1}, x \in S}

ConsensusInit ==
    /\ WebUnused
    /\ config \in {c \in Configs : c.confidenceThreshold = 800
                                   /\ ~c.autoReplyEnabled /\ c.humanReviewRequired}
    /\ AgentUnused
    /\ OrchUnused
    /\ graphs = [g \in GraphIds |-> NoGraph]
    /\ nextId = 1
    /\ apiError = ""
    /\ nodeAdded = {}
    /\ RequestsUnused
    /\ \E ds \in SeqsUpTo(ConsensusDecisions, MaxDecisions) :
          consensusCall = [NoConsensusCall EXCEPT !.decisions = ds]

\* const consensus = this.calculateConsensus(decisions);
\* const recommendation = this.synthesizeRecommendation(decisions, consensus);
CalculateConsensus ==
    /\ ~consensusCall.called
    /\ \E consensus \in {calculateConsensus(consensusCall.decisions)} :
          consensusCall' = [consensusCall EXCEPT
                               !.called = TRUE,
                               !.consensus = consensus,
                               !.recommendation = synthesizeRecommendation(consensus)]
    /\ UNCHANGED <<config, webVars, agentVars, orchVars, graphVars, swarmConfig, qdagInstance,
                   initState, calls, started, poolVars>>

ConsensusNext == CalculateConsensus

ConsensusSpec == ConsensusInit /\ [][ConsensusNext]_vars

(***************************************************************************)
(* PoolSpec: interleaved spawnAgent calls                                   *)
(***************************************************************************)

\* The largest maxAgents the orchestrator is constructed with.
MaxAgentLimit == 2

\* The configurations of the pool: a small maxAgents (0 reaches swarmConfig
\* through the ...config spread), with and without dark addressing.
PoolConfigs ==
    { [DefaultSwarmConfig EXCEPT !.maxAgents = m, !.darkAddressing = d] :
        m \in 0..MaxAgentLimit, d \in BOOLEAN }

PoolInit ==
    /\ WebUnused
    /\ config \in {c \in Configs : c.confidenceThreshold = 800
                                   /\ ~c.autoReplyEnabled /\ c.humanReviewRequired}
    /\ AgentUnused
    /\ OrchUnused
    /\ graphs = [g \in GraphIds |-> NoGraph]
    /\ nextId = 1
    /\ apiError = ""
    /\ nodeAdded = {}
    /\ swarmConfig \in PoolConfigs
    /\ qdagInstance = FALSE
    /\ initState = "new"
    /\ calls = [c \in PairIds |-> IdleCall]
    /\ started = 0
    /\ PoolUnused
    /\ ConsensusUnused

\* spawnAgent with the limit tested by > for >=.
SpawnAgentOffByOne(s) ==
    /\ spawns[s].pc # "registering"
    /\ IF Cardinality(DOMAIN activeAgents) > swarmConfig.maxAgents
       THEN /\ spawns' = [spawns EXCEPT ![s] =
                             [pc |-> "rejected", agentId |-> 0,
                              error |-> "Maximum agent limit reached"]]
            /\ UNCHANGED <<activeAgents, nextId>>
       ELSE /\ nextId <= MaxIds
            /\ nextId' = nextId + 1
            /\ activeAgents' = Put(activeAgents, nextId,
                                   [status |-> "active", darkAddress |-> FALSE])
            /\ spawns' = [spawns EXCEPT ![s] =
                             [pc |-> IF swarmConfig.darkAddressing /\ qdagInstance
                                     THEN "registering" ELSE "returned",
                              agentId |-> nextId, error |-> ""]]
    /\ UNCHANGED <<config, webVars, agentVars, orchVars, graphs, apiError, nodeAdded, swarmConfig,
                   qdagInstance, initState, calls, started, consensusCall>>

\* spawnAgent(type, capabilities) up to its await, or to its end when it
\* does not register a dark address.
SpawnAgent(s) ==
    /\ spawns[s].pc # "registering"
    /\ IF Cardinality(DOMAIN activeAgents) >= swarmConfig.maxAgents
       THEN /\ spawns' = [spawns EXCEPT ![s] =
                             [pc |-> "rejected", agentId |-> 0,
                              error |-> "Maximum agent limit reached"]]
            /\ UNCHANGED <<activeAgents, nextId>>
       ELSE /\ nextId <= MaxIds
            /\ nextId' = nextId + 1
            /\ activeAgents' = Put(activeAgents, nextId,
                                   [status |-> "active", darkAddress |-> FALSE])
            /\ spawns' = [spawns EXCEPT ![s] =
                             [pc |-> IF swarmConfig.darkAddressing /\ qdagInstance
                                     THEN "registering" ELSE "returned",
                              agentId |-> nextId, error |-> ""]]
    /\ UNCHANGED <<config, webVars, agentVars, orchVars, graphs, apiError, nodeAdded, swarmConfig,
                   qdagInstance, initState, calls, started, consensusCall>>

\* await QuDAG.registerAddress(darkAddress) resolved: agent['darkAddress']
\* is set and the call returns the id.
RegisterResolves(s) ==
    /\ spawns[s].pc = "registering"
    /\ spawns' = [spawns EXCEPT ![s].pc = "returned"]
    /\ activeAgents' = IF spawns[s].agentId \in DOMAIN activeAgents
                       THEN [activeAgents EXCEPT ![spawns[s].agentId].darkAddress = TRUE]
                       ELSE activeAgents
    /\ UNCHANGED <<config, webVars, agentVars, orchVars, graphVars, swarmConfig, qdagInstance,
                   initState, calls, started, consensusCall>>

\* await QuDAG.registerAddress(darkAddress) rejected: the call rejects and
\* the agent stays in activeAgents.
RegisterRejects(s) ==
    /\ spawns[s].pc = "registering"
    /\ spawns' = [spawns EXCEPT ![s].pc = "rejected",
                                ![s].error = "registerAddress rejected"]
    /\ UNCHANGED <<config, webVars, agentVars, orchVars, graphVars, swarmConfig, qdagInstance,
                   initState, calls, started, activeAgents, consensusCall>>

\* shutdown(): this.graphs.clear(); this.activeAgents.clear()
Shutdown ==
    /\ activeAgents # <<>>
    /\ graphs' = [g \in GraphIds |-> NoGraph]
    /\ activeAgents' = <<>>
    /\ UNCHANGED <<config, webVars, agentVars, orchVars, nextId, apiError, nodeAdded, swarmConfig,
                   qdagInstance, initState, calls, started, spawns, consensusCall>>

PoolNext ==
    \/ Initialize
    \/ \E s \in Spawners : SpawnAgent(s)
    \/ \E s \in Spawners : RegisterResolves(s)
    \/ \E s \in Spawners : RegisterRejects(s)
    \/ Shutdown

PoolSpec == PoolInit /\ [][PoolNext]_vars

(***************************************************************************)
(* Database.checkRateLimit                                                  *)
(***************************************************************************)

\* The callers the rate limiter tells apart, and the endpoints.
Identifiers == {"a@example.com", "b@example.com"}
Endpoints == {"/support/create", "/api/test"}

\* The limits of config.rateLimit, in ticks of the clock and in requests.
RateConfigs == [windowMs : {3}, max : {1, 2}]

\* The model stops the clock at MaxClock and makes MaxRateCalls calls.
MaxClock == 5
MaxRateCalls == 3

\* SELECT SUM(count): the sum of the column count over rows.
RECURSIVE SumCount(_)
SumCount(rows) ==
    IF rows = <<>> THEN 0 ELSE Head(rows).count + SumCount(Tail(rows))

\* checkRateLimit with > for >= in the comparison with maxRequests.
checkRateLimitOneMore(rows, identifier, endpoint, windowMs, maxRequests, now) ==
    LET windowStart == now - windowMs
        kept == SelectSeq(rows, LAMBDA r : ~(r.windowEnd < windowStart))
        currentCount ==
            SumCount(SelectSeq(kept, LAMBDA r : /\ r.identifier = identifier
                                                /\ r.endpoint = endpoint
                                                /\ r.windowEnd > windowStart))
    IN  IF currentCount > maxRequests
        THEN [rows |-> kept, allowed |-> FALSE]
        ELSE [rows |-> Append(kept, [identifier |-> identifier,
                                     endpoint |-> endpoint, count |-> 1,
                                     windowStart |-> now,
                                     windowEnd |-> now + windowMs]),
              allowed |-> TRUE]

\* checkRateLimit(identifier, endpoint, windowMs, maxRequests) at time now on
\* the table rows: the table it leaves and the boolean it returns.  The rows
\* whose window ended before now - windowMs are deleted; the rows of the pair
\* whose window ends after now - windowMs are counted; below maxRequests a row
\* with the window [now, now + windowMs] is inserted.
checkRateLimit(rows, identifier, endpoint, windowMs, maxRequests, now) ==
    LET windowStart == now - windowMs
        kept == SelectSeq(rows, LAMBDA r : ~(r.windowEnd < windowStart))
        currentCount ==
            SumCount(SelectSeq(kept, LAMBDA r : /\ r.identifier = identifier
                                                /\ r.endpoint = endpoint
                                                /\ r.windowEnd > windowStart))
    IN  IF currentCount >= maxRequests
        THEN [rows |-> kept, allowed |-> FALSE]
        ELSE [rows |-> Append(kept, [identifier |-> identifier,
                                     endpoint |-> endpoint, count |-> 1,
                                     windowStart |-> now,
                                     windowEnd |-> now + windowMs]),
              allowed |-> TRUE]

\* A new database, limits from the configuration and no request yet.
RateInit ==
    /\ rateConfig \in RateConfigs
    /\ rateLimits = <<>>
    /\ clock = 0
    /\ rateCalls = <<>>
    /\ ticket = IdleTicket
    /\ DeskUnused
    /\ config \in {c \in Configs : c.confidenceThreshold = 800
                                    /\ ~c.autoReplyEnabled /\ c.humanReviewRequired}
    /\ AgentUnused
    /\ OrchUnused
    /\ SwarmUnused

\* Time passes.
Tick ==
    /\ clock < MaxClock
    /\ clock' = clock + 1
    /\ UNCHANGED <<deskVars, config, rateConfig, rateLimits, rateCalls, ticket, agentVars,
                   orchVars, graphVars, swarmVars>>

\* A caller calls db.checkRateLimit: with the configured limits for
\* '/support/create', with a window of 1 and one request for the other endpoint.
CheckRateLimit(identifier, endpoint) ==
    /\ Len(rateCalls) < MaxRateCalls
    /\ \E limits \in {IF endpoint = "/support/create"
                       THEN rateConfig ELSE [windowMs |-> 1, max |-> 1]} :
       \E r \in {checkRateLimit(rateLimits, identifier, endpoint,
                                limits.windowMs, limits.max, clock)} :
          /\ rateLimits' = r.rows
          /\ rateCalls' = Append(rateCalls, [identifier |-> identifier,
                                             endpoint |-> endpoint,
                                             windowMs |-> limits.windowMs,
                                             max |-> limits.max,
                                             at |-> clock,
                                             allowed |-> r.allowed])
    /\ UNCHANGED <<deskVars, config, rateConfig, clock, ticket, agentVars, orchVars,
                   graphVars, swarmVars>>

RateNext ==
    \/ Tick
    \/ \E identifier \in Identifiers, endpoint \in Endpoints :
          CheckRateLimit(identifier, endpoint)

RateSpec == RateInit /\ [][RateNext]_vars

(***************************************************************************)
(* POST /support/create                                                     *)
(***************************************************************************)

\* The bodies of the requests: "" stands for a field that is missing or empty.
Bodies == [email : {""} \cup Identifiers, subject : {"", "Help"},
           message : {"", "It is broken"}]

\* What orchestrator.processRequest resolves to, as far as the route reads it:
\* finalAction, requiresApproval and each decision's action and suggested
\* response ("" for none).
AgentResults ==
    [finalAction : {"auto_reply", "escalate"},
     requiresApproval : BOOLEAN,
     decisions :
        {<<[action |-> "triage", suggestedResponse |-> ""]>>,
         <<[action |-> "triage", suggestedResponse |-> ""],
           [action |-> "auto_reply", suggestedResponse |-> "Thanks"]>>,
         <<[action |-> "triage", suggestedResponse |-> ""],
           [action |-> "auto_reply", suggestedResponse |-> ""]>>,
         <<[action |-> "auto_reply", suggestedResponse |-> ""],
           [action |-> "auto_reply", suggestedResponse |-> "Thanks"]>>}]

\* decisions.find(d => d.action === 'auto_reply')?.suggestedResponse, "" when
\* there is no such decision.
FindSuggestedResponse(ds) ==
    LET found == SelectSeq(ds, LAMBDA d : d.action = "auto_reply")
    IN  IF found = <<>> THEN "" ELSE Head(found).suggestedResponse

\* createTicket with the rate limiter consulted before the fields are checked.
createTicketLimiterFirst(body, rows, limits, now) ==
    LET canProceed == checkRateLimit(rows, body.email, "/support/create",
                                     limits.windowMs, limits.max, now)
    IN  IF body.email = "" \/ body.subject = "" \/ body.message = ""
        THEN [ticket |-> [IdleTicket EXCEPT !.pc = "responded", !.body = body,
                                            !.status = 400],
              rows |-> canProceed.rows, checked |-> TRUE,
              allowed |-> canProceed.allowed]
        ELSE IF ~canProceed.allowed
             THEN [ticket |-> [IdleTicket EXCEPT !.pc = "responded", !.body = body,
                                                 !.status = 429,
                                                 !.trace = <<"checkRateLimit">>],
                   rows |-> canProceed.rows, checked |-> TRUE, allowed |-> FALSE]
             ELSE [ticket |-> [IdleTicket EXCEPT !.pc = "createIssue", !.body = body,
                                                 !.trace = <<"checkRateLimit",
                                                             "createIssue">>],
                   rows |-> canProceed.rows, checked |-> TRUE, allowed |-> TRUE]

\* The handler up to its first await or its early return: the ticket, the
\* rate_limits table it leaves and whether checkRateLimit was called.
createTicket(body, rows, limits, now) ==
    IF body.email = "" \/ body.subject = "" \/ body.message = ""
    THEN [ticket |-> [IdleTicket EXCEPT !.pc = "responded", !.body = body,
                                        !.status = 400],
          rows |-> rows, checked |-> FALSE, allowed |-> FALSE]
    ELSE LET canProceed == checkRateLimit(rows, body.email, "/support/create",
                                          limits.windowMs, limits.max, now)
         IN  IF ~canProceed.allowed
             THEN [ticket |-> [IdleTicket EXCEPT !.pc = "responded", !.body = body,
                                                 !.status = 429,
                                                 !.trace = <<"checkRateLimit">>],
                   rows |-> canProceed.rows, checked |-> TRUE, allowed |-> FALSE]
             ELSE [ticket |-> [IdleTicket EXCEPT !.pc = "createIssue", !.body = body,
                                                 !.trace = <<"checkRateLimit",
                                                             "createIssue">>],
                   rows |-> canProceed.rows, checked |-> TRUE, allowed |-> TRUE]

\* resume without the test of requiresApproval before the auto-reply.
resumeIgnoringApproval(t, result) ==
    CASE t.pc = "createIssue" ->
            [t EXCEPT !.pc = "processRequest",
                      !.trace = @ \o <<"createIssueMapping", "insertEmailMessage",
                                       "processRequest">>]
      [] t.pc = "processRequest" ->
            [t EXCEPT !.pc = "addComment",
                      !.agentResult = result,
                      !.trace = @ \o [i \in 1..Len(result.decisions)
                                                 |-> "recordAgentAction"]
                                  \o <<"addComment">>]
      [] t.pc = "addComment" ->
            [t EXCEPT !.pc = "sendConfirmationEmail",
                      !.trace = Append(@, "sendConfirmationEmail")]
      [] t.pc = "sendConfirmationEmail" ->
            IF /\ t.agentResult.finalAction = "auto_reply"
               /\ FindSuggestedResponse(t.agentResult.decisions) # ""
            THEN [t EXCEPT !.pc = "sendEmail", !.trace = Append(@, "sendEmail")]
            ELSE [t EXCEPT !.pc = "responded", !.status = 200]
      [] t.pc = "sendEmail" ->
            [t EXCEPT !.pc = "addReplyComment", !.trace = Append(@, "addComment")]
      [] t.pc = "addReplyComment" ->
            [t EXCEPT !.pc = "responded", !.status = 200]

\* The handler from the await t.pc names, which resolved (to result, after
\* orchestrator.processRequest), up to the next await or the response.
resume(t, result) ==
    CASE t.pc = "createIssue" ->
            [t EXCEPT !.pc = "processRequest",
                      !.trace = @ \o <<"createIssueMapping", "insertEmailMessage",
                                       "processRequest">>]
      [] t.pc = "processRequest" ->
            [t EXCEPT !.pc = "addComment",
                      !.agentResult = result,
                      !.trace = @ \o [i \in 1..Len(result.decisions)
                                                 |-> "recordAgentAction"]
                                  \o <<"addComment">>]
      [] t.pc = "addComment" ->
            [t EXCEPT !.pc = "sendConfirmationEmail",
                      !.trace = Append(@, "sendConfirmationEmail")]
      [] t.pc = "sendConfirmationEmail" ->
            IF /\ t.agentResult.finalAction = "auto_reply"
               /\ ~t.agentResult.requiresApproval
               /\ FindSuggestedResponse(t.agentResult.decisions) # ""
            THEN [t EXCEPT !.pc = "sendEmail", !.trace = Append(@, "sendEmail")]
            ELSE [t EXCEPT !.pc = "responded", !.status = 200]
      [] t.pc = "sendEmail" ->
            [t EXCEPT !.pc = "addReplyComment", !.trace = Append(@, "addComment")]
      [] t.pc = "addReplyComment" ->
            [t EXCEPT !.pc = "responded", !.status = 200]

\* A client posts body to /support/create, once the request before it was
\* answered.
PostCreate(body) ==
    /\ ticket.pc \in {"idle", "responded"}
    /\ Len(rateCalls) < MaxRateCalls
    /\ \E r \in {createTicket(body, rateLimits, rateConfig, clock)} :
          /\ ticket' = r.ticket
          /\ rateLimits' = r.rows
          /\ rateCalls' = IF r.checked
                          THEN Append(rateCalls, [identifier |-> body.email,
                                                  endpoint |-> "/support/create",
                                                  windowMs |-> rateConfig.windowMs,
                                                  max |-> rateConfig.max,
                                                  at |-> clock,
                                                  allowed |-> r.allowed])
                          ELSE rateCalls
    /\ UNCHANGED <<deskVars, config, rateConfig, clock, agentVars, orchVars, graphVars,
                   swarmVars>>

\* The promise the handler awaits resolves.
AwaitResolves ==
    /\ ticket.pc \notin {"idle", "responded"}
    /\ \E result \in IF ticket.pc = "processRequest"
                     THEN AgentResults ELSE {IdleTicket.agentResult} :
          ticket' = resume(ticket, result)
    /\ UNCHANGED <<deskVars, config, rateVars, agentVars, orchVars, graphVars, swarmVars>>

\* The promise the handler awaits rejects: the catch block answers 500.
AwaitRejects ==
    /\ ticket.pc \notin {"idle", "responded"}
    /\ ticket' = [ticket EXCEPT !.pc = "responded", !.status = 500]
    /\ UNCHANGED <<deskVars, config, rateVars, agentVars, orchVars, graphVars, swarmVars>>

RouteNext ==
    \/ Tick
    \/ \E body \in Bodies : PostCreate(body)
    \/ AwaitResolves
    \/ AwaitRejects

\* The requests start on a new database, as the calls of RateSpec do.
RouteSpec == RateInit /\ [][RouteNext]_vars

(***************************************************************************)
(* POST /webhooks/github                                                    *)
(***************************************************************************)

MaxHookCalls == 2

\* Every part of the model the webhook, the email intake and the admin routes
\* leave alone is not in use.
CoreUnused ==
    /\ config \in {c \in Configs : c.confidenceThreshold = 800
                                    /\ ~c.autoReplyEnabled /\ c.humanReviewRequired}
    /\ AgentUnused
    /\ OrchUnused
    /\ SwarmUnused
    /\ RateUnused
    /\ ticket = IdleTicket

\* 'sha256=' and the hex digest of the payload under the webhook secret.
Digest == <<"sha256=", "ab", "cd">>

\* The header x-hub-signature-256: missing, the digest, a shorter string and
\* another string of the digest's length.
Signatures ==
    {[present |-> FALSE, value |-> <<>>],
     [present |-> TRUE, value |-> Digest],
     [present |-> TRUE, value |-> <<"sha256=", "ab">>],
     [present |-> TRUE, value |-> <<"sha256=", "ab", "ef">>]}

\* The requests: the signature and event headers and, of the body, the action,
\* the issue number and the type of the comment's user ("none": the body has
\* no comment).
HookRequests ==
    [signature : Signatures, event : {"issue_comment", "issues"},
     action : {"created", "edited"}, issue : Issues,
     comment : {"none", "User", "Bot"}]

\* GitHubService.verifyWebhookSignature: Buffer.from of a missing header
\* raises a TypeError; buffers of different lengths are unequal;
\* timingSafeEqual compares buffers of one length.
verifyWebhookSignature(signature) ==
    IF ~signature.present THEN "TypeError"
    ELSE IF Len(signature.value) # Len(Digest) THEN "false"
    ELSE IF signature.value = Digest THEN "true" ELSE "false"

\* The handler up to the await of sendEmail or up to its response; whatever it
\* raises is answered by the catch block with 500.
postWebhook(h, req) ==
    LET start == [h EXCEPT !.req = req, !.sent = <<>>, !.calls = @ + 1]
        answer(status, body) ==
            [start EXCEPT !.pc = "responded", !.status = status, !.body = body]
        verified == verifyWebhookSignature(req.signature)
    IN  CASE verified = "TypeError" -> answer(500, "Webhook processing failed")
          [] verified = "false" -> answer(401, "Invalid signature")
          [] OTHER ->
                IF req.event = "issue_comment" /\ req.action = "created"
                THEN CASE req.comment = "none" ->
                             answer(500, "Webhook processing failed")
                       [] req.comment = "Bot" -> answer(200, "skipped")
                       [] req.issue \notin h.mappings -> answer(200, "no_mapping")
                       [] h.originalMessages[req.issue] \notin {"none", ""} ->
                             [start EXCEPT !.pc = "sendEmail"]
                       [] OTHER -> answer(200, "processed")
                ELSE answer(200, "processed")

\* A database with some issue mappings and, for each issue, no inbound
\* message, one whose from_email is empty or one with a sender.
HookInit ==
    /\ hook \in {[IdleHook EXCEPT !.mappings = m, !.originalMessages = o] :
                    m \in SUBSET Issues,
                    o \in [Issues -> {"none", "", "a@example.com"}]}
    /\ mail = IdleMail
    /\ admin = IdleAdmin
    /\ CoreUnused

\* GitHub posts req, once the request before it was answered.
PostWebhook(req) ==
    /\ hook.pc \in {"idle", "responded"}
    /\ hook.calls < MaxHookCalls
    /\ hook' = postWebhook(hook, req)
    /\ UNCHANGED <<mail, admin, config, rateVars, ticket, agentVars, orchVars,
                   graphVars, swarmVars>>

\* gmailService.sendEmail resolves: the email went to the original sender.
SendEmailResolves ==
    /\ hook.pc = "sendEmail"
    /\ hook' = [hook EXCEPT !.pc = "responded", !.status = 200,
                            !.body = "processed",
                            !.sent = Append(@, hook.originalMessages[hook.req.issue])]
    /\ UNCHANGED <<mail, admin, config, rateVars, ticket, agentVars, orchVars,
                   graphVars, swarmVars>>

\* gmailService.sendEmail rejects: the catch block answers 500.
SendEmailRejects ==
    /\ hook.pc = "sendEmail"
    /\ hook' = [hook EXCEPT !.pc = "responded", !.status = 500,
                            !.body = "Webhook processing failed"]
    /\ UNCHANGED <<mail, admin, config, rateVars, ticket, agentVars, orchVars,
                   graphVars, swarmVars>>

HookNext ==
    \/ \E req \in HookRequests : PostWebhook(req)
    \/ SendEmailResolves
    \/ SendEmailRejects

HookSpec == HookInit /\ [][HookNext]_vars

(***************************************************************************)
(* Incoming email: processIncomingEmail of server.ts                        *)
(***************************************************************************)

MaxDeliveries == 3

\* The emails: the Message-ID and the issue number of the address they were
\* sent to (0 for the plain support address, where extractIssueNumberFromAlias
\* returns null).
MailMessages == [messageId : {"m1", "m2"}, issueNumber : {0, 1}]

\* The ids uuid.v4() hands out, in order.
Uuids == <<"u1", "u2", "u3", "u4">>

\* Database.getEmailByMessageId, as the handlers read it: a row exists.
getEmailByMessageId(rows, messageId) ==
    \E i \in 1..Len(rows) : rows[i].messageId = messageId

\* Database.insertEmailMessage, when message_id is not stored yet (the column
\* is UNIQUE): a new row under a new uuid.
insertEmailMessage(rows, messageId, issueNumber, status) ==
    Append(rows, [id |-> Uuids[Len(rows) + 1], messageId |-> messageId,
                  githubIssueNumber |-> issueNumber, status |-> status,
                  processedAt |-> FALSE])

\* Database.updateEmailStatus: UPDATE ... WHERE id = ?.
updateEmailStatus(rows, id, status) ==
    [i \in 1..Len(rows) |->
        IF rows[i].id = id
        THEN [rows[i] EXCEPT !.status = status, !.processedAt = TRUE]
        ELSE rows[i]]

\* processIncomingEmail up to the first await of the handler it picks, or to
\* the handler's return on a duplicate.
processIncomingEmail(m, p, message) ==
    IF getEmailByMessageId(m.emails, message.messageId)
    THEN [m EXCEPT !.delivered = @ + 1]
    ELSE IF message.issueNumber # 0
         THEN [m EXCEPT !.delivered = @ + 1,
                        !.emails = insertEmailMessage(@, message.messageId,
                                                      message.issueNumber, "pending"),
                        !.procs[p] = [pc |-> "addComment",
                                      messageId |-> message.messageId,
                                      issue |-> message.issueNumber]]
         ELSE [m EXCEPT !.delivered = @ + 1,
                        !.procs[p] = [pc |-> "createIssue",
                                      messageId |-> message.messageId,
                                      issue |-> 0]]

\* The handler of source p from the await that resolved up to the next one or
\* to its end.  createIssue resolves to the next issue number; an insert of a
\* message_id already stored raises, which processIncomingEmail catches.
resumeEmail(m, p) ==
    LET proc == m.procs[p]
        number == Len(m.issues) + 2
    IN  CASE proc.pc = "addComment" ->
                [m EXCEPT !.comments = Append(@, [issue |-> proc.issue,
                                                  messageId |-> proc.messageId,
                                                  kind |-> "reply"]),
                          !.emails = updateEmailStatus(@, proc.messageId, "processed"),
                          !.procs[p] = IdleWatcher]
          [] proc.pc = "createIssue" ->
                IF getEmailByMessageId(m.emails, proc.messageId)
                THEN [m EXCEPT !.issues = Append(@, proc.messageId),
                               !.mappings = @ \cup {number},
                               !.procs[p] = IdleWatcher]
                ELSE [m EXCEPT !.issues = Append(@, proc.messageId),
                               !.mappings = @ \cup {number},
                               !.emails = insertEmailMessage(@, proc.messageId,
                                                             number, "processed"),
                               !.procs[p] = [proc EXCEPT !.pc = "processRequest",
                                                         !.issue = number]]
          [] proc.pc = "processRequest" ->
                [m EXCEPT !.procs[p].pc = "addAnalysis"]
          [] proc.pc = "addAnalysis" ->
                [m EXCEPT !.comments = Append(@, [issue |-> proc.issue,
                                                  messageId |-> proc.messageId,
                                                  kind |-> "analysis"]),
                          !.procs[p].pc = "sendConfirmationEmail"]
          [] proc.pc = "sendConfirmationEmail" ->
                [m EXCEPT !.procs[p] = IdleWatcher]

\* The server has started on a new database; GitHub numbers new issues from 2.
MailInit ==
    /\ mail = IdleMail
    /\ hook = IdleHook
    /\ admin = IdleAdmin
    /\ CoreUnused

\* Source p hands message to processIncomingEmail; each source awaits the
\* email it is processing before it takes the next.
Deliver(p, message) ==
    /\ mail.procs[p].pc = "idle"
    /\ mail.delivered < MaxDeliveries
    /\ mail' = processIncomingEmail(mail, p, message)
    /\ UNCHANGED <<hook, admin, config, rateVars, ticket, agentVars, orchVars,
                   graphVars, swarmVars>>

\* The promise source p awaits resolves.
EmailAwaitResolves(p) ==
    /\ mail.procs[p].pc # "idle"
    /\ mail' = resumeEmail(mail, p)
    /\ UNCHANGED <<hook, admin, config, rateVars, ticket, agentVars, orchVars,
                   graphVars, swarmVars>>

\* The promise source p awaits rejects: processIncomingEmail logs the error.
EmailAwaitRejects(p) ==
    /\ mail.procs[p].pc # "idle"
    /\ mail' = [mail EXCEPT !.procs[p] = IdleWatcher]
    /\ UNCHANGED <<hook, admin, config, rateVars, ticket, agentVars, orchVars,
                   graphVars, swarmVars>>

MailNext ==
    \/ \E p \in Watchers, message \in MailMessages : Deliver(p, message)
    \/ \E p \in Watchers : EmailAwaitResolves(p)
    \/ \E p \in Watchers : EmailAwaitRejects(p)

MailSpec == MailInit /\ [][MailNext]_vars

(***************************************************************************)
(* Agent actions: recording, GET /admin/pending-actions and                 *)
(* POST /admin/approve-action/:id                                           *)
(***************************************************************************)

MaxActions == 3

\* Database.recordAgentAction: a new row of agent_actions.  The columns
\* human_approved and executed_at hold "NULL" or a value ("0", "1"; "time").
\* by, requires and verdict are not columns: they record who inserted the
\* row, the decision's requiresHumanApproval and the latest approval request.
recordAgentAction(rows, by, requires, humanApproved, executedAt) ==
    Append(rows, [id |-> Len(rows) + 1, by |-> by, requires |-> requires,
                  humanApproved |-> humanApproved, executedAt |-> executedAt,
                  verdict |-> "none"])

\* Database.getPendingAgentActions: WHERE human_approved IS NULL AND
\* executed_at IS NULL.
getPendingAgentActions(rows) ==
    SelectSeq(rows, LAMBDA r : r.humanApproved = "NULL" /\ r.executedAt = "NULL")

\* Database.approveAgentAction.
approveAgentAction(rows, id, approved) ==
    [i \in 1..Len(rows) |->
        IF rows[i].id = id
        THEN [rows[i] EXCEPT !.humanApproved = IF approved THEN "1" ELSE "0",
                             !.executedAt = IF approved THEN "time" ELSE "NULL",
                             !.verdict = IF approved THEN "approved" ELSE "rejected"]
        ELSE rows[i]]

RECURSIVE RecordDecisions(_, _)
\* The loop of POST /support/create over agentResult.decisions: each decision
\* is recorded with humanApproved: !requiresHumanApproval and an execution
\* time unless it requires approval.
RecordDecisions(rows, ds) ==
    IF ds = <<>> THEN rows
    ELSE RecordDecisions(
            recordAgentAction(rows, "route", Head(ds),
                              IF Head(ds) THEN "0" ELSE "1",
                              IF Head(ds) THEN "NULL" ELSE "time"),
            Tail(ds))

AdminInit ==
    /\ admin = IdleAdmin
    /\ hook = IdleHook
    /\ mail = IdleMail
    /\ CoreUnused

\* POST /support/create records the decisions of a request, given by their
\* requiresHumanApproval.  The driver either stores the booleans and the
\* Date as values or refuses to bind them, and then the route answers 500
\* with no row stored.
RecordRequest(ds, binds) ==
    /\ Len(admin.actions) + Len(ds) <= MaxActions
    /\ admin' = IF binds
                THEN [admin EXCEPT !.actions = RecordDecisions(@, ds)]
                ELSE admin
    /\ UNCHANGED <<hook, mail, config, rateVars, ticket, agentVars, orchVars,
                   graphVars, swarmVars>>

\* A caller records an action with no approval and no execution time, as
\* the database tests do.
RecordPending ==
    /\ Len(admin.actions) < MaxActions
    /\ admin' = [admin EXCEPT !.actions =
                    recordAgentAction(@, "direct", TRUE, "NULL", "NULL")]
    /\ UNCHANGED <<hook, mail, config, rateVars, ticket, agentVars, orchVars,
                   graphVars, swarmVars>>

\* POST /admin/approve-action/:id with approved in the body.
ApproveAction(id, approved) ==
    /\ id \in 1..Len(admin.actions)
    /\ admin' = [admin EXCEPT !.actions = approveAgentAction(@, id, approved)]
    /\ UNCHANGED <<hook, mail, config, rateVars, ticket, agentVars, orchVars,
                   graphVars, swarmVars>>

AdminNext ==
    \/ \E ds \in {<<TRUE>>, <<FALSE>>, <<FALSE, TRUE>>}, binds \in BOOLEAN :
          RecordRequest(ds, binds)
    \/ RecordPending
    \/ \E id \in 1..MaxActions, approved \in BOOLEAN : ApproveAction(id, approved)

AdminSpec == AdminInit /\ [][AdminNext]_vars

(***************************************************************************)
(* Claims on AgentSpec                                                      *)
(***************************************************************************)

Returned == lastCall.agent # "none" /\ ~lastCall.threw

\* No rule of any policy was applied to the returned decision.
NoPolicyApplied == \A i \in 1..Len(lastCall.trace) : ~lastCall.trace[i].applied

\* C2: every decision an agent's process returns, no policy having changed
\* it, with a confidence below the configured confidenceThreshold has
\* requiresHumanApproval set.
C2_BelowThresholdRequiresApproval ==
    (Returned /\ NoPolicyApplied
        /\ lastCall.decision.confidence < config.confidenceThreshold)
    => lastCall.decision.requiresHumanApproval

\* C3 as stated: every decision an agent's process returns, for every input
\* and every set of attached policies, has a confidence within [0, 1].
C3_ConfidenceInUnitInterval ==
    Returned =>
        (lastCall.decision.confidence >= 0 /\ lastCall.decision.confidence <= 1000)

\* Every set_confidence rule the policy pass applied carried a value within
\* [0, 1].
AppliedConfidencesValid ==
    \A i \in 1..Len(lastCall.trace) :
        (lastCall.trace[i].applied /\ lastCall.trace[i].rule.action = "set_confidence")
        => (lastCall.trace[i].rule.parameters.value >= 0
            /\ lastCall.trace[i].rule.parameters.value <= 1000)

\* C3 as amended: every decision an agent's process returns, for every input
\* and every set of attached policies whose applied set_confidence rules
\* carry a value within [0, 1], has a confidence within [0, 1].
C3_ConfidenceInUnitIntervalGivenValidRules ==
    (Returned /\ AppliedConfidencesValid) =>
        (lastCall.decision.confidence >= 0 /\ lastCall.decision.confidence <= 1000)

\* A policy overwrote the confidence with a valid value, and the agent had
\* computed another one.
C3_Witness ==
    /\ Returned /\ AppliedConfidencesValid
    /\ \E i \in 1..Len(lastCall.trace) :
          lastCall.trace[i].applied /\ lastCall.trace[i].rule.action = "set_confidence"
    /\ lastCall.decision.confidence # lastCall.tentative.confidence

\* C10: the policy pass of a process call visits the rules of enabled
\* policies only, in descending priority of their policies, the rules of one
\* policy in their order; and the policy list is kept in that order by
\* addPolicy.
C10_PoliciesByDescendingPriority ==
    /\ \A i, j \in 1..Len(policies) :
          i < j => policies[i].priority >= policies[j].priority
    /\ lastCall.agent # "none" =>
          /\ \A i \in 1..Len(lastCall.trace) : lastCall.trace[i].enabled
          /\ \A i, j \in 1..Len(lastCall.trace) :
                i < j => lastCall.trace[i].priority >= lastCall.trace[j].priority
          /\ \A p \in 1..Len(policies) :
                ~policies[p].enabled =>
                    \A i \in 1..Len(lastCall.trace) :
                        lastCall.trace[i].policy # policies[p].id

\* A pass over two enabled policies of different priority, the lower one
\* attached first, with a disabled policy of the highest priority attached.
C10_Witness ==
    /\ Returned
    /\ \E i, j \in 1..Len(lastCall.trace) :
          i < j /\ lastCall.trace[i].priority > lastCall.trace[j].priority
    /\ \E p \in 1..Len(policies) : ~policies[p].enabled

\* The policies ps without the rules whose condition fails to evaluate.
WithoutRaisingRules(ps) ==
    [p \in 1..Len(ps) |->
        [ps[p] EXCEPT !.rules = SelectSeq(@, LAMBDA r : ~ConditionRaises(r.condition))]]

\* The rules a policy pass evaluated, in order, each with its policy and
\* with whether it was applied.
Evaluations(trace) ==
    [i \in 1..Len(trace) |-> <<trace[i].policy, trace[i].rule, trace[i].applied>>]

\* C11: a rule whose condition fails to evaluate counts as false: it is not
\* applied, every rule after it is still evaluated, and the call ends as it
\* would without the rule, with the same decision and without an error of
\* its own.
C11_FailedConditionIsFalse ==
    lastCall.agent # "none" =>
        /\ \A i \in 1..Len(lastCall.trace) :
              ConditionRaises(lastCall.trace[i].rule.condition)
              => /\ ~lastCall.trace[i].applied
                 /\ lastCall.trace[i].rule.condition \in lastCall.raised
        /\ \E other \in {process(lastCall.agent, WithoutRaisingRules(policies),
                                 lastCall.input, config)} :
              /\ other.threw = lastCall.threw
              /\ other.decision = lastCall.decision
              /\ Evaluations(other.trace)
                    = Evaluations(SelectSeq(lastCall.trace,
                                    LAMBDA v : ~ConditionRaises(v.rule.condition)))

\* A call returned although a condition failed to evaluate, and rules after
\* it, of the same policy and of a policy of lower priority, were applied.
C11_Witness ==
    /\ Returned
    /\ \E i, j, k \in 1..Len(lastCall.trace) :
          /\ i < j /\ j < k
          /\ ConditionRaises(lastCall.trace[i].rule.condition)
          /\ lastCall.trace[j].applied /\ lastCall.trace[j].policy = lastCall.trace[i].policy
          /\ lastCall.trace[k].applied /\ lastCall.trace[k].policy # lastCall.trace[i].policy

\* C19: for every intent key AutoReplyAgent.process returns action
\* 'auto_reply' with confidence 0.9 exactly when a response was found, and
\* action 'escalate' with confidence 0.3 and no suggested response
\* otherwise; requiresHumanApproval is true whenever no response was found
\* or the confidence is below the configured confidenceThreshold.  The
\* decision is the one the agent builds, returned as it is when no policy
\* rule is applied to it.
C19_AutoReplyDecision ==
    lastCall.agent = "AutoReplyAgent" =>
        /\ \/ /\ lastCall.tentative.suggestedResponse # Null
              /\ lastCall.tentative.action = "auto_reply"
              /\ lastCall.tentative.confidence = 900
           \/ /\ lastCall.tentative.suggestedResponse = Null
              /\ lastCall.tentative.action = "escalate"
              /\ lastCall.tentative.confidence = 300
        /\ (\/ lastCall.tentative.suggestedResponse = Null
            \/ lastCall.tentative.confidence < config.confidenceThreshold)
           => lastCall.tentative.requiresHumanApproval
        /\ lastCall.input.intent \in {"password_reset", "information_request"}
           => lastCall.tentative.suggestedResponse # Null
        /\ lastCall.input.intent \in {"cancellation", "unknown_intent"}
           => lastCall.tentative.suggestedResponse = Null
        /\ NoPolicyApplied
           => (~lastCall.threw /\ lastCall.decision = lastCall.tentative)

\* A response was found, with confidence 0.9 below the threshold 0.95, and
\* the decision was returned with no policy rule applied.
C19_Witness ==
    /\ lastCall.agent = "AutoReplyAgent"
    /\ Returned
    /\ NoPolicyApplied
    /\ config.confidenceThreshold = 950
    /\ lastCall.decision.action = "auto_reply"
    /\ lastCall.decision.requiresHumanApproval

\* The intents in the order detectIntent tests them.
IntentPrecedence ==
    <<"cancellation", "refund_request", "information_request", "bug_report",
      "feature_request">>

\* The keywords of an intent.
IntentKeywords(type) ==
    CASE type = "cancellation"        -> {<<"cancel">>, <<"unsubscribe">>}
      [] type = "refund_request"      -> {<<"refund">>, <<"money", "back">>}
      [] type = "information_request" -> {<<"how">>, <<"what">>, <<"where">>}
      [] type = "bug_report"          -> {<<"bug">>, <<"broken">>, <<"not", "working">>}
      [] type = "feature_request"     -> {<<"feature">>, <<"could", "you">>,
                                          <<"it", "would", "be", "nice">>}

\* The positions in IntentPrecedence of the intents the text matches.
MatchingIntents(text) ==
    {i \in 1..Len(IntentPrecedence) : IncludesAny(text, IntentKeywords(IntentPrecedence[i]))}

\* C20: IntentDetectionAgent picks the earliest intent, in the order
\* cancellation, refund_request, information_request, bug_report,
\* feature_request, one of whose keywords the text contains, with confidence
\* 0.85, and general_inquiry with confidence 0.5 when it contains none.
C20_IntentPrecedence ==
    lastCall.agent = "IntentDetectionAgent" =>
        \E matching \in {MatchingIntents(lastCall.input.text)} :
            IF matching = {}
            THEN /\ lastCall.tentative.metadata.type = "general_inquiry"
                 /\ lastCall.tentative.confidence = 500
            ELSE /\ \E i \in matching :
                       /\ \A j \in matching : i <= j
                       /\ lastCall.tentative.metadata.type = IntentPrecedence[i]
                 /\ lastCall.tentative.confidence = 850

\* A text with keywords of two intents, the one of the later intent first
\* in the text, got the earlier intent.
C20_Witness ==
    /\ lastCall.agent = "IntentDetectionAgent"
    /\ Returned
    /\ lastCall.input.text = <<"feature", ".", "refund", ".">>
    /\ MatchingIntents(lastCall.input.text) = {2, 5}
    /\ lastCall.decision.metadata.type = "refund_request"
    /\ lastCall.decision.confidence = 850

\* The keywords of the four categories of TriageAgent.categorize.
CategoryKeywords ==
    {<<"bug">>, <<"error">>, <<"broken">>, <<"feature">>, <<"request">>,
     <<"enhancement">>, <<"urgent">>, <<"critical">>, <<"asap">>, <<"question">>,
     <<"how", "to">>, <<"help">>}

\* C21: TriageAgent assigns priority high if 'urgent' is among the matched
\* categories, else medium if 'bug' is, else low if 'feature-request' is,
\* else normal; a request matching no category keyword gets the categories
\* ['general'] and the priority normal.
C21_PriorityByCategory ==
    lastCall.agent = "TriageAgent" =>
        \E categories \in {lastCall.tentative.metadata.categories} :
            /\ lastCall.tentative.metadata.priority
                  = (IF SeqIncludes(categories, "urgent") THEN "high"
                     ELSE IF SeqIncludes(categories, "bug") THEN "medium"
                     ELSE IF SeqIncludes(categories, "feature-request") THEN "low"
                     ELSE "normal")
            /\ ~IncludesAny(SubjectAndBody(lastCall.input), CategoryKeywords)
               => /\ categories = <<"general">>
                  /\ lastCall.tentative.metadata.priority = "normal"
            /\ NoPolicyApplied
               => (~lastCall.threw /\ lastCall.decision = lastCall.tentative)

\* A request matched both 'bug' and 'urgent' and got the priority high.
C21_Witness ==
    /\ lastCall.agent = "TriageAgent"
    /\ Returned
    /\ SeqIncludes(lastCall.decision.metadata.categories, "bug")
    /\ SeqIncludes(lastCall.decision.metadata.categories, "urgent")
    /\ lastCall.decision.metadata.priority = "high"

\* C22: the confidence of a SummarizationAgent decision is determined by
\* the compression ratio summaryLength / originalLength: 0.6 when the ratio
\* is below 0.1, 0.7 when it is above 0.5, and 0.85 otherwise.
C22_ConfidenceByCompressionRatio ==
    (lastCall.agent = "SummarizationAgent"
        /\ lastCall.tentative.metadata.originalLength > 0)
    => lastCall.tentative.confidence
          = (IF 10 * lastCall.tentative.metadata.summaryLength
                   < lastCall.tentative.metadata.originalLength THEN 600
             ELSE IF 2 * lastCall.tentative.metadata.summaryLength
                        > lastCall.tentative.metadata.originalLength THEN 700
             ELSE 850)

\* C23: for every input text and every maxLength the summary returned by
\* SummarizationAgent has a length of at most maxLength (200 where none is
\* given), and a summary that was truncated ends with '...'.
C23_SummaryWithinMaxLength ==
    lastCall.agent = "SummarizationAgent" =>
        /\ lastCall.tentative.metadata.summaryLength
              <= (IF lastCall.input.maxLength = 0 THEN 200 ELSE lastCall.input.maxLength)
        /\ (lastCall.tentative.suggestedResponse # <<>>
               /\ Head(lastCall.tentative.suggestedResponse) = "<cut>")
           => lastCall.tentative.suggestedResponse[Len(lastCall.tentative.suggestedResponse)]
                 = "..."

C40_NoPolicyMakesProcessFail ==
    lastCall # NoCall
    => /\ ~lastCall.threw
       /\ (\A i \in 1..Len(lastCall.trace) :
              lastCall.trace[i].applied
              => lastCall.trace[i].rule.action
                    \notin {"require_human_approval", "set_confidence", "add_metadata"})
          => lastCall.decision = lastCall.tentative

(***************************************************************************)
(* Claims on OrchSpec                                                       *)
(***************************************************************************)

\* C1: processRequest returns finalAction 'auto_reply' exactly when no
\* collected decision requires human approval, some decision's confidence
\* (hence the highest) is above confidenceThreshold, and a decision with
\* action 'auto_reply' and a non-empty suggestedResponse was collected; in
\* every other case it returns 'escalate'.
C1_AutoReplyOnlyWhenCleared ==
    pc = "done" =>
        LET ds == outcome.decisions
            cleared ==
                /\ \A i \in 1..Len(ds) : ~ds[i].requiresHumanApproval
                /\ \E i \in 1..Len(ds) : ds[i].confidence > config.confidenceThreshold
                /\ \E i \in 1..Len(ds) :
                      ds[i].action = "auto_reply" /\ Truthy(ds[i].suggestedResponse)
        IN  /\ ds = decisions
            /\ outcome.finalAction = (IF cleared THEN "auto_reply" ELSE "escalate")

\* processRequest returned 'auto_reply'.
C1_Witness == pc = "done" /\ outcome.finalAction = "auto_reply"

AgentOrder == <<"TriageAgent", "IntentDetectionAgent", "SummarizationAgent", "AutoReplyAgent">>

\* C9: processRequest awaits the agents in the order Triage, Intent
\* Detection, Summarization, Auto-Reply, one after the other; Auto-Reply runs
\* exactly when the intent decision carries a type and autoReplyEnabled is
\* set; the returned list has the four decisions in that order when it ran
\* and the first three otherwise.
C9_FixedAgentSequence ==
    /\ pc \notin {"unused"} =>
          /\ Len(invoked) <= 4
          /\ invoked = SubSeq(AgentOrder, 1, Len(invoked))
    /\ pc = "done" =>
          LET ran == decisions[2].metadata.type # "" /\ config.autoReplyEnabled
          IN  /\ Len(invoked) = (IF ran THEN 4 ELSE 3)
              /\ Len(outcome.decisions) = Len(invoked)
              /\ outcome.decisions[1].action = "triage"
              /\ outcome.decisions[2].action = "route"
              /\ outcome.decisions[3].action = "summarize"
              /\ ran => outcome.decisions[4].action \in {"auto_reply", "escalate"}
              /\ ran => outcome.decisions[4].metadata.intent = decisions[2].metadata.type

\* processRequest returned four decisions.
C9_Witness == pc = "done" /\ Len(outcome.decisions) = 4

\* The input processRequest gave to the agent of its i-th decision.
AgentInputOf(i) ==
    CASE i = 1 -> request
      [] i = 2 -> [text |-> SubjectAndBody(request)]
      [] i = 3 -> [text |-> request.body, maxLength |-> 0]
      [] i = 4 -> [intent |-> decisions[2].metadata.type]

\* No rule of the policies attached to the agent sets the confidence.
NoConfidenceRule(agent) ==
    \A p \in 1..Len(agentPolicies[agent]) :
        \A r \in 1..Len(agentPolicies[agent][p].rules) :
            agentPolicies[agent][p].rules[r].action # "set_confidence"

DetectedIntent == detectIntent(SubjectAndBody(request))

\* C38: finalAction is 'auto_reply' only for requests whose detected intent is
\* information_request, bug_report or feature_request; for a request whose
\* intent is cancellation, refund_request or general_inquiry finalAction is
\* 'escalate' and requiresApproval is true.
C38_AutoReplyByIntent ==
    pc = "done" =>
        /\ outcome.finalAction = "auto_reply"
           => DetectedIntent \in {"information_request", "bug_report", "feature_request"}
        /\ DetectedIntent \in {"cancellation", "refund_request", "general_inquiry"}
           => outcome.finalAction = "escalate" /\ outcome.requiresApproval

\* C38, as it holds: when no policy of the intent agent rewrites the intent
\* type, finalAction is 'auto_reply' only for requests whose detected intent
\* is information_request, bug_report or feature_request; for the intents
\* cancellation, refund_request and general_inquiry finalAction is 'escalate',
\* and when the Auto-Reply agent ran it found no response and
\* requiresApproval is true.
C38_AutoReplyByIntentWhenAgentRuns ==
    (pc = "done" /\ outcome.decisions[2].metadata.type = DetectedIntent) =>
        /\ outcome.finalAction = "auto_reply"
           => DetectedIntent \in {"information_request", "bug_report", "feature_request"}
        /\ DetectedIntent \in {"cancellation", "refund_request", "general_inquiry"}
           => /\ outcome.finalAction = "escalate"
              /\ Len(outcome.decisions) = 4
                 => /\ ~Truthy(outcome.decisions[4].suggestedResponse)
                    /\ outcome.decisions[4].action = "escalate"
                    /\ outcome.requiresApproval

\* The Auto-Reply agent ran for a refund request and found no response.
C38_Witness ==
    /\ pc = "done"
    /\ DetectedIntent = "refund_request"
    /\ config.autoReplyEnabled
    /\ Len(outcome.decisions) = 4
    /\ outcome.decisions[4].metadata.intent = "refund_request"
    /\ outcome.finalAction = "escalate"

(***************************************************************************)
(* Claims on ConsensusSpec                                                  *)
(***************************************************************************)

\* C12: calculateConsensus of a list holding a single decision with a
\* confidence c, 0 <= c <= 1, is exactly c.
C12_SingleDecisionConsensus ==
    (/\ consensusCall.called
     /\ Len(consensusCall.decisions) = 1
     /\ consensusCall.decisions[1].overallConfidence = 0
     /\ consensusCall.decisions[1].confidence \in 0..1000)
    => consensusCall.consensus = consensusCall.decisions[1].confidence

\* The consensus of a single decision with a confidence strictly between 0
\* and 1.
C12_Witness ==
    /\ consensusCall.called
    /\ Len(consensusCall.decisions) = 1
    /\ consensusCall.decisions[1].confidence = 601
    /\ consensusCall.consensus = 601

\* C13: calculateConsensus is exactly 0 for the empty list and for a list
\* none of whose decisions has a positive confidence, and within [0, 1] for
\* every list.
C13_ConsensusInUnitInterval ==
    consensusCall.called =>
        /\ consensusCall.consensus \in 0..1000
        /\ (\A i \in 1..Len(consensusCall.decisions) :
                CollectedConfidence(consensusCall.decisions[i]) <= 0)
           => consensusCall.consensus = 0

\* A list of decisions with confidences beyond [0, 1] whose score falls
\* below 0 and is clamped.
C13_Witness ==
    /\ consensusCall.called
    /\ Len(consensusCall.decisions) = 2
    /\ consensusCall.decisions[1].confidence = 5000
    /\ consensusCall.decisions[2].confidence = 300
    /\ consensusCall.consensus = 0

C16_AgentLimit ==
    /\ [](Cardinality(DOMAIN activeAgents) <= swarmConfig.maxAgents)
    /\ [][\A s \in Spawners :
             (Cardinality(DOMAIN activeAgents) >= swarmConfig.maxAgents /\ SpawnAgent(s))
             => /\ spawns'[s].pc = "rejected"
                /\ spawns'[s].error = "Maximum agent limit reached"
                /\ activeAgents' = activeAgents]_vars

\* A call was rejected at the limit while another call, which added its
\* agent before, is still awaiting registerAddress.
C16_Witness ==
    /\ swarmConfig.maxAgents > 0
    /\ Cardinality(DOMAIN activeAgents) = swarmConfig.maxAgents
    /\ \E s, t \in Spawners :
          /\ spawns[s].pc = "rejected"
          /\ spawns[s].error = "Maximum agent limit reached"
          /\ spawns[t].pc = "registering"

(***************************************************************************)
(* Claims on GraphSpec                                                      *)
(***************************************************************************)

\* The position of id in the sequence order, 0 if it is not there.
PositionIn(order, id) ==
    IF \E i \in 1..Len(order) : order[i] = id
    THEN CHOOSE i \in 1..Len(order) : order[i] = id
    ELSE 0

\* C4: after any sequence of createGraph and addNode calls, every id listed
\* in the dependencies of a node of a graph appears in the graph's
\* executionOrder, at a position strictly before the node.
C4_DependenciesBeforeDependents ==
    \A g \in GraphIds : \A n \in DOMAIN graphs[g].nodes :
        \A i \in 1..Len(graphs[g].nodes[n].dependencies) :
            LET d == graphs[g].nodes[n].dependencies[i]
            IN  /\ PositionIn(graphs[g].executionOrder, d) > 0
                /\ PositionIn(graphs[g].executionOrder, d)
                      < PositionIn(graphs[g].executionOrder, n)

\* C5: after every addNode call the executionOrder of the graph is a
\* permutation of the ids of its node map: every node appears exactly once,
\* also a node with no parent, or with a parent or a dependency that cannot
\* be reached from the root.
C5_ExecutionOrderIsPermutation ==
    \A g \in GraphIds :
        /\ Len(graphs[g].executionOrder) = Cardinality(DOMAIN graphs[g].nodes)
        /\ {graphs[g].executionOrder[i] : i \in 1..Len(graphs[g].executionOrder)}
              = DOMAIN graphs[g].nodes

\* A graph holds a node added with a parent that is no node of the graph
\* and with a dependency that is no node of the graph.
C5_Witness ==
    \E g \in GraphIds : \E n \in DOMAIN graphs[g].nodes :
        /\ graphs[g].nodes[n].parent # NoParent
        /\ graphs[g].nodes[n].parent \notin DOMAIN graphs[g].nodes
        /\ \E i \in 1..Len(graphs[g].nodes[n].dependencies) :
              graphs[g].nodes[n].dependencies[i] \notin DOMAIN graphs[g].nodes
        /\ Len(graphs[g].executionOrder) = 2

\* C15: addNode with a graph id that is not registered fails with 'Graph
\* ... not found' and changes nothing: no graph is created, no node is added
\* to any graph, and no nodeAdded event is emitted.  Every step that ends in
\* this error was made on an unregistered id and left the graphs, the ids
\* handed out and the events emitted as they were, and a call on an
\* unregistered id ends in this error.
C15_AddNodeUnknownGraph ==
    [][\A graphId \in GraphIds :
          /\ apiError' = GraphNotFound(graphId)
             => /\ graphs[graphId] = NoGraph
                /\ graphs' = graphs
                /\ nextId' = nextId
                /\ nodeAdded' = nodeAdded
          /\ (/\ graphs[graphId] = NoGraph
              /\ AddNode(graphId, Node(0, "analysis", <<"Analyze", "the", "request">>,
                                       NoParent, <<>>, "pending")))
             => apiError' = GraphNotFound(graphId)]_vars

\* addNode failed on an unregistered id while another graph was registered
\* and held an added node.
C15_Witness ==
    /\ apiError = GraphNotFound("g2")
    /\ graphs["g2"] = NoGraph
    /\ graphs["g1"] # NoGraph
    /\ nodeAdded # {}

\* C17: after any sequence of addNode calls, the children list of a parent
\* node holds the id of every node created with that parent, exactly once.
C17_ChildrenHoldEveryChild ==
    \A g \in GraphIds :
        graphs[g] # NoGraph =>
            \A n \in DOMAIN graphs[g].nodes :
                \A p \in {graphs[g].nodes[n].parent} \cap DOMAIN graphs[g].nodes :
                    Cardinality({i \in 1..Len(graphs[g].nodes[p].children) :
                                    graphs[g].nodes[p].children[i] = n}) = 1

\* A node with two children, each created with it as the parent.
C17_Witness ==
    \E g \in GraphIds :
        /\ graphs[g] # NoGraph
        /\ \E p \in DOMAIN graphs[g].nodes :
              /\ Len(graphs[g].nodes[p].children) = 2
              /\ \A i \in 1..2 :
                    graphs[g].nodes[graphs[g].nodes[p].children[i]].parent = p

\* C18: recomputing the execution order of a graph again, with no node
\* added in between, yields the sequence the previous computation gave.
C18_ExecutionOrderIdempotent ==
    \A g \in GraphIds :
        (graphs[g] # NoGraph /\ Len(graphs[g].keys) > 1)
        => updateExecutionOrder([graphs[g] EXCEPT
                                    !.executionOrder = updateExecutionOrder(graphs[g])])
           = graphs[g].executionOrder

\* A graph whose order was computed over three nodes, one of them reached
\* through a dependency.
C18_Witness ==
    \E g \in GraphIds :
        /\ graphs[g] # NoGraph
        /\ Len(graphs[g].executionOrder) = 3
        /\ \E n \in DOMAIN graphs[g].nodes : graphs[g].nodes[n].dependencies # <<>>

(***************************************************************************)
(* Claims on SwarmSpec and SwarmFairSpec                                    *)
(***************************************************************************)

\* The number of topics (bug/error, payment/billing, security/breach) with a
\* keyword in the subject and body of the request.
TopicsMatched(req) ==
    Cardinality({topic \in {{<<"bug">>, <<"error">>}, {<<"payment">>, <<"billing">>},
                            {<<"security">>, <<"breach">>}} :
                    IncludesAny(SwarmText(req), topic)})

\* C25: after processRequest the graph holds the root, the 8 base
\* sub-questions and exactly 2 more question nodes for each topic whose
\* keywords occur in subject and body; every node but the root is a
\* 'question' node with the root as parent, listed in the root's children.
C25_GraphHoldsSubQuestions ==
    \A c \in CallIds :
        calls[c].pc = "returned" =>
            \E graph \in {calls[c].graph} :
                /\ graph.rootId \in DOMAIN graph.nodes
                /\ Cardinality(DOMAIN graph.nodes)
                      = 1 + 8 + 2 * TopicsMatched(calls[c].request)
                /\ \A n \in DOMAIN graph.nodes \ {graph.rootId} :
                      /\ graph.nodes[n].type = "question"
                      /\ graph.nodes[n].parent = graph.rootId
                      /\ SeqIncludes(graph.nodes[graph.rootId].children, n)

\* A request naming all three topics was processed: 15 nodes.
C25_Witness ==
    \E c \in CallIds :
        /\ calls[c].pc = "returned"
        /\ TopicsMatched(calls[c].request) = 3
        /\ Cardinality(DOMAIN calls[c].graph.nodes) = 15

\* pending -> processing -> completed | failed
StatusRank(status) ==
    CASE status = "pending"    -> 0
      [] status = "processing" -> 1
      [] OTHER                 -> 2

\* C6: along every execution the status of a graph node only moves forward
\* through pending, processing, then completed or failed: it never returns
\* to an earlier status, and a completed or failed node never changes status.
C6_StatusMovesForward ==
    [][\A c \in CallIds :
         \A n \in DOMAIN calls[c].graph.nodes \cap DOMAIN calls[c].graph.nodes' :
            LET before == calls[c].graph.nodes[n].status
                after  == calls[c].graph.nodes'[n].status
            IN  /\ StatusRank(after) >= StatusRank(before)
                /\ before \in {"completed", "failed"} => after = before]_vars

\* C7: a node whose execution raised is marked failed and the walk goes on:
\* the call has moved past the node, every node after it that the walk has
\* passed was executed, and at the return of processRequest every node after
\* it was executed.
C7_FailureDoesNotAbort ==
    \A c \in CallIds : \A k \in 1..Len(calls[c].errors) :
        LET pos == PositionIn(calls[c].order, calls[c].errors[k])
        IN  /\ calls[c].graph.nodes[calls[c].errors[k]].status = "failed"
            /\ calls[c].index > pos
            /\ calls[c].pc \in {"handler", "fingerprint", "returned"}
            /\ \A j \in (pos + 1)..Len(calls[c].order) :
                  (j < calls[c].index \/ calls[c].pc = "returned")
                  => calls[c].graph.nodes[calls[c].order[j]].status
                        \in {"completed", "failed"}

\* A call returned after the execution of a node raised, with nodes after
\* that node in the execution order.
C7_Witness ==
    \E c \in CallIds :
        /\ calls[c].pc = "returned"
        /\ Len(calls[c].errors) = 1
        /\ PositionIn(calls[c].order, calls[c].errors[1]) < Len(calls[c].order)

\* The results of the nodes of ids, in that order, whose status in graph is
\* completed.
RECURSIVE CompletedResults(_, _)
CompletedResults(graph, ids) ==
    IF ids = <<>>
    THEN <<>>
    ELSE (IF /\ Head(ids) \in DOMAIN graph.nodes
             /\ graph.nodes[Head(ids)].status = "completed"
          THEN <<graph.nodes[Head(ids)].result>> ELSE <<>>)
         \o CompletedResults(graph, Tail(ids))

\* C35: when executeGraph has returned, the decisions list holds the results
\* of the completed nodes, one for each, in execution order, and no result of
\* a failed node.
C35_DecisionsOfCompletedNodes ==
    \A c \in CallIds :
        calls[c].pc = "returned"
        => calls[c].decisions = CompletedResults(calls[c].graph, calls[c].order)

\* The confidences calculateConsensus collects from the decisions ds.
PositiveConfidences(ds) ==
    SelectSeq([i \in 1..Len(ds) |-> CollectedConfidence(ds[i])], LAMBDA x : x > 0)

C8_ProcessRequestReturns ==
    /\ [](\A c \in CallIds :
             calls[c].pc = "returned"
             => /\ calls[c].recommendation # ""
                /\ Len(calls[c].decisions) > 0
                /\ \A n \in DOMAIN calls[c].graph.nodes :
                      calls[c].graph.nodes[n].status \in {"completed", "failed"})
    /\ \A c \in CallIds :
          (calls[c].pc \in {"handler", "fingerprint"}) ~> (calls[c].pc = "returned")

\* A call returned the graph of a request with all three topics: 15 nodes.
C8_Witness ==
    \E c \in CallIds :
        /\ calls[c].pc = "returned"
        /\ Cardinality(DOMAIN calls[c].graph.nodes) = 15
        /\ calls[c].graph = graphs[calls[c].request.id]

(***************************************************************************)
(* Claims on PairSpec                                                       *)
(***************************************************************************)

\* The contents of the nodes made for a request: the root question and the
\* sub-questions, in the order they are created.
ContentsFor(req) ==
    << <<"How", "should", "we", "handle", "support", "request:">>
       \o req.subject \o <<"?">> >> \o decomposeQuestion(req)

\* C36: two processRequest calls in progress at once, with one request id or
\* two, do not interfere: the graph of each call holds the nodes created for
\* its own request and no node of the other call's graph, each call walks the
\* nodes of its own graph only, and a step of one call changes nothing of the
\* other call.
C36_CallsDoNotInterfere ==
    /\ [](\A c \in PairIds :
            calls[c].pc # "idle"
            => LET g == calls[c].graph
               IN  /\ [i \in 1..Len(g.keys) |-> g.nodes[g.keys[i]].content]
                         = ContentsFor(calls[c].request)
                   /\ DOMAIN g.nodes = {g.keys[i] : i \in 1..Len(g.keys)}
                   /\ \A d \in PairIds \ {c} :
                         DOMAIN g.nodes \cap DOMAIN calls[d].graph.nodes = {}
                   /\ {calls[c].order[i] : i \in 1..Len(calls[c].order)}
                         = DOMAIN g.nodes
                   /\ \A n \in DOMAIN g.nodes :
                         g.nodes[n].status # "pending"
                         => PositionIn(calls[c].order, n) <= calls[c].index)
    /\ [][\A c \in PairIds, d \in PairIds :
             (c # d /\ calls'[c] # calls[c]) => calls'[d] = calls[d]]_vars

\* Both calls are at an await of executeGraph with the same request id, each
\* past the first nodes of its walk, and the id is registered to the graph of
\* the second call.
C36_Witness ==
    /\ calls[1].pc \in {"handler", "fingerprint"}
    /\ calls[2].pc \in {"handler", "fingerprint"}
    /\ calls[1].request.id = calls[2].request.id
    /\ calls[1].index > 2
    /\ calls[2].index > 2
    /\ graphs[calls[1].request.id].rootId = calls[2].graph.rootId

(***************************************************************************)
(* Claims on HookSpec                                                       *)
(***************************************************************************)

\* The request hook.req is one the handler may answer with an email.
Entitled ==
    /\ verifyWebhookSignature(hook.req.signature) = "true"
    /\ hook.req.event = "issue_comment"
    /\ hook.req.action = "created"
    /\ hook.req.comment = "User"
    /\ hook.req.issue \in hook.mappings
    /\ hook.originalMessages[hook.req.issue] \notin {"none", ""}

\* C32: the webhook handler sends an email only when the signature verifies,
\* the event is an issue_comment with action 'created', the author is not a
\* Bot, an issue mapping exists and an original inbound message with a sender
\* exists; a signature that does not verify yields 401, a Bot comment yields
\* 'skipped' and a missing mapping yields 'no_mapping', each without an email.
C32_WebhookEmailOnlyWhenEntitled ==
    /\ (hook.pc = "sendEmail" \/ hook.sent # <<>>) => Entitled
    /\ hook.pc = "responded" =>
          LET verified == verifyWebhookSignature(hook.req.signature) = "true"
              created == hook.req.event = "issue_comment"
                         /\ hook.req.action = "created"
          IN  /\ ~verified => hook.status = 401 /\ hook.sent = <<>>
              /\ (verified /\ created /\ hook.req.comment = "Bot")
                 => hook.status = 200 /\ hook.body = "skipped" /\ hook.sent = <<>>
              /\ (verified /\ created /\ hook.req.comment = "User"
                  /\ hook.req.issue \notin hook.mappings)
                 => hook.status = 200 /\ hook.body = "no_mapping"
                    /\ hook.sent = <<>>

(***************************************************************************)
(* Claims on MailSpec                                                       *)
(***************************************************************************)

\* The number of entries of s that satisfy Test.
CountOf(s, Test(_)) == Cardinality({i \in 1..Len(s) : Test(s[i])})

\* C33: incoming emails are deduplicated by messageId: for each messageId at
\* most one GitHub issue is created and at most one comment of each kind is
\* added, also when the polling loop and the IMAP IDLE watcher deliver the
\* same message more than once or concurrently.
C33_OneIssuePerMessageId ==
    \A id \in {m.messageId : m \in MailMessages} :
        /\ CountOf(mail.issues, LAMBDA x : x = id) <= 1
        /\ \A kind \in {"reply", "analysis"} :
              CountOf(mail.comments,
                      LAMBDA c : c.messageId = id /\ c.kind = kind) <= 1

\* C37: when handleEmailReply has stored an inbound reply and added it as a
\* GitHub comment, the stored email message has status 'processed' and a
\* processed time.
C37_ReplyEndsProcessed ==
    \A i \in 1..Len(mail.comments) :
        mail.comments[i].kind = "reply"
        => \A j \in 1..Len(mail.emails) :
              mail.emails[j].messageId = mail.comments[i].messageId
              => mail.emails[j].status = "processed" /\ mail.emails[j].processedAt

(***************************************************************************)
(* Claims on AdminSpec                                                      *)
(***************************************************************************)

\* The ids GET /admin/pending-actions lists.
PendingIds ==
    {getPendingAgentActions(admin.actions)[i].id :
        i \in 1..Len(getPendingAgentActions(admin.actions))}

\* What a row shows of the latest approval request made for it.
VerdictStored(row) ==
    /\ row.verdict = "approved"
       => row.humanApproved = "1" /\ row.executedAt # "NULL"
    /\ row.verdict = "rejected"
       => row.humanApproved = "0" /\ row.executedAt = "NULL"

\* C34: every decision recorded by POST /support/create that requires human
\* approval is listed by getPendingAgentActions until it is approved or
\* rejected through approveAgentAction, and never after; approving sets
\* humanApproved true with an execution time, rejecting sets humanApproved
\* false with no execution time.
C34_PendingUntilDecided ==
    \A i \in 1..Len(admin.actions) :
        LET row == admin.actions[i]
        IN  (row.by = "route" /\ row.requires)
            => /\ row.verdict = "none" <=> row.id \in PendingIds
               /\ VerdictStored(row)

(***************************************************************************)
(* Claims on RouteSpec                                                      *)
(***************************************************************************)

\* The handler of the latest request called gmailService.sendEmail.
AutoReplySent == \E i \in 1..Len(ticket.trace) : ticket.trace[i] = "sendEmail"

\* C27: while a POST /support/create request is handled the auto-reply email
\* is sent only if the orchestrator's finalAction is 'auto_reply',
\* requiresApproval is false and the result holds an auto_reply decision with a
\* suggested response; when approval is required no auto-reply email is sent.
C27_AutoReplyOnlyWhenApproved ==
    /\ AutoReplySent
       => /\ ticket.agentResult.finalAction = "auto_reply"
          /\ ~ticket.agentResult.requiresApproval
          /\ \E i \in 1..Len(ticket.agentResult.decisions) :
                /\ ticket.agentResult.decisions[i].action = "auto_reply"
                /\ ticket.agentResult.decisions[i].suggestedResponse # ""
    /\ ticket.agentResult.requiresApproval => ~AutoReplySent

\* A request was answered with 200 after its auto-reply was sent.
C27_Witness ==
    /\ ticket.status = 200
    /\ AutoReplySent
    /\ ticket.agentResult.finalAction = "auto_reply"
    /\ ~ticket.agentResult.requiresApproval

\* A field of the body is missing or empty.
MissingField(body) == body.email = "" \/ body.subject = "" \/ body.message = ""

\* C28: a request the rate limiter rejects is answered with 429 and its handler
\* does nothing but the checkRateLimit call (no issue, no mapping or message,
\* no agent run, no email); a request missing email, subject or message is
\* answered with 400 without a checkRateLimit call.
C28_RejectedRequestsHaveNoEffect ==
    /\ [](/\ ticket.pc # "idle" => (MissingField(ticket.body) <=> ticket.status = 400)
          /\ ticket.status = 400 => ticket.trace = <<>>
          /\ ticket.status = 429
             => ticket.pc = "responded" /\ ticket.trace = <<"checkRateLimit">>)
    /\ [][/\ (ticket' # ticket /\ ticket'.status = 400) => UNCHANGED rateVars
          /\ (/\ Len(rateCalls') = Len(rateCalls) + 1
              /\ ~rateCalls'[Len(rateCalls')].allowed)
             => /\ ticket'.status = 429
                /\ ticket'.body.email = rateCalls'[Len(rateCalls')].identifier
                /\ ticket'.trace = <<"checkRateLimit">>]_vars

\* The rate limiter rejected a caller's request, answered with 429, after it
\* allowed a request of the same caller.
C28_Witness ==
    /\ ticket.status = 429
    /\ Len(rateCalls) > 1
    /\ ~rateCalls[Len(rateCalls)].allowed
    /\ \E k \in 1..Len(rateCalls) :
          rateCalls[k].allowed /\ rateCalls[k].identifier = ticket.body.email

(***************************************************************************)
(* Claims on RateSpec                                                       *)
(***************************************************************************)

\* The checkRateLimit calls made for the pair (identifier, endpoint), as
\* positions in rateCalls, and those of them that returned true.
CallsOf(identifier, endpoint) ==
    {k \in 1..Len(rateCalls) : /\ rateCalls[k].identifier = identifier
                               /\ rateCalls[k].endpoint = endpoint}
AllowedOf(identifier, endpoint) ==
    {k \in CallsOf(identifier, endpoint) : rateCalls[k].allowed}

\* C29: for a fixed pair, windowMs and maxRequests, starting from an empty
\* table: the first maxRequests calls return true and the next call, made
\* within the window of the first, returns false; no interval of length
\* windowMs holds more than maxRequests calls that returned true; and a call
\* that returned false left no row behind (the rows of a pair that start at a
\* time are never more than the calls allowed at that time).
C29_RateLimit ==
    \A identifier \in Identifiers, endpoint \in Endpoints :
        LET made == CallsOf(identifier, endpoint)
            allowed == AllowedOf(identifier, endpoint)
            before(k) == {j \in made : j < k}
        IN  /\ \A k \in made :
                  Cardinality(before(k)) < rateCalls[k].max => rateCalls[k].allowed
            /\ \A k \in made :
                  (/\ Cardinality(before(k)) = rateCalls[k].max
                   /\ \A j \in before(k) :
                         rateCalls[k].at - rateCalls[j].at <= rateCalls[k].windowMs)
                  => ~rateCalls[k].allowed
            /\ \A c \in made, from \in 0..MaxClock :
                  Cardinality({k \in allowed :
                                  /\ rateCalls[k].at >= from
                                  /\ rateCalls[k].at <= from + rateCalls[c].windowMs})
                      <= rateCalls[c].max
            /\ \A at \in 0..MaxClock :
                  SumCount(SelectSeq(rateLimits,
                                     LAMBDA r : /\ r.identifier = identifier
                                                /\ r.endpoint = endpoint
                                                /\ r.windowStart = at))
                      <= Cardinality({k \in allowed : rateCalls[k].at = at})

\* With maxRequests 2 a pair made two allowed calls and was then refused
\* within windowMs of both.
C29_Witness ==
    \E identifier \in Identifiers, endpoint \in Endpoints :
        /\ Cardinality(AllowedOf(identifier, endpoint)) = 2
        /\ \E k \in CallsOf(identifier, endpoint) :
              /\ ~rateCalls[k].allowed
              /\ rateCalls[k].max = 2
              /\ \A j \in AllowedOf(identifier, endpoint) :
                    j < k /\ rateCalls[k].at - rateCalls[j].at <= rateCalls[k].windowMs

\* C30: a call for a pair made more than windowMs after that pair's last
\* allowed call returns true.
C30_AllowedAfterWindow ==
    \A identifier \in Identifiers, endpoint \in Endpoints :
        \A k \in CallsOf(identifier, endpoint) :
            LET earlier == {j \in AllowedOf(identifier, endpoint) : j < k}
            IN  (/\ earlier # {}
                 /\ \A j \in earlier :
                       rateCalls[k].at - rateCalls[j].at > rateCalls[k].windowMs)
                => rateCalls[k].allowed

\* What the calls cs return when they are the only calls made on the table
\* rows, one after the other at the times they were made.
RECURSIVE AloneOutcomes(_, _)
AloneOutcomes(cs, rows) ==
    IF cs = <<>>
    THEN <<>>
    ELSE LET c == Head(cs)
             r == checkRateLimit(rows, c.identifier, c.endpoint, c.windowMs,
                                 c.max, c.at)
         IN  <<r.allowed>> \o AloneOutcomes(Tail(cs), r.rows)

\* C31: the calls made for other pairs never change what a call for a pair
\* returns: every pair's calls returned what they return when no call for
\* another pair is made.
C31_PairsAreIndependent ==
    \A identifier \in Identifiers, endpoint \in Endpoints :
        LET own == SelectSeq(rateCalls, LAMBDA c : /\ c.identifier = identifier
                                                   /\ c.endpoint = endpoint)
        IN  AloneOutcomes(own, <<>>) = [i \in 1..Len(own) |-> own[i].allowed]

====
